---- MODULE Spec2Model ----
(***************************************************************************)
(* Correlator: the three-step GPU correlation pipeline.                    *)
(*                                                                         *)
(* CorrelationPipeline (include/correlator/CorrelationPipeline.hpp) drives *)
(* OpenCLFFTBackend (the OpenCL backend header), which owns the OpenCL     *)
(* context and queue and an FFTHandler (src/fft_handler.cpp) that owns the *)
(* device buffers and the three clFFT plans.  The host is single threaded; *)
(* the device executes the commands of one in-order command queue          *)
(* asynchronously, so a step is split at the points where the host blocks. *)
(***************************************************************************)
EXTENDS Integers, Sequences, FiniteSets, TLC

\* Number of runtime failures (API calls returning an error status, device
\* commands ending with an error) injected in one behaviour.
MaxFaults == 1

VARIABLES
    step1_completed_,   \* CorrelationPipeline::step1_completed_
    step2_completed_,   \* CorrelationPipeline::step2_completed_
    step3_completed_,   \* CorrelationPipeline::step3_completed_
    timings,            \* CorrelationPipeline::stepK_*_timing_, per step
    snapshot,           \* what snapshot_ holds per step
    initialized_,       \* OpenCLFFTBackend::initialized_
    fft_handler_,       \* OpenCLFFTBackend::fft_handler_ is non-null
    context_,           \* OpenCLFFTBackend::context_ is non-null
    queue_,             \* OpenCLFFTBackend::queue_ is non-null
    ctx,                \* FFTHandler::ctx_ (FFTContext)
    obj,                \* device objects and how often each was released
    data,               \* contents of the device buffers
    ops,                \* commands enqueued on the command queue, in order
    pc,                 \* where the host is
    frame,              \* locals of the step the host is executing
    call,               \* the latest client call and its outcome
    relLog,             \* releases made by the latest cleanup, in order
    faults,             \* failures injected so far
    cfg,                \* CorrelationPipeline::config_ (N, shifts, signals, n_kg)
    cb,                 \* the latest device callback or host transfer examined
    backend_cfg,        \* OpenCLFFTBackend::fft_size_, num_shifts_, ... , scale_factor_
    run                 \* work-items of a transform with the running-maximum callback

vars == << step1_completed_, step2_completed_, step3_completed_, timings,
           snapshot, initialized_, fft_handler_, context_, queue_, ctx, obj,
           data, ops, pc, frame, call, relLog, faults, cfg, cb,
           backend_cfg, run >>

flags == << step1_completed_, step2_completed_, step3_completed_ >>

----------------------------------------------------------------------------
(* Device objects *)

Plans == { "reference_fft_plan", "input_fft_plan", "correlation_ifft_plan" }

\* cl_mem members of FFTContext that FFTHandler::initialize fills
CtxBuffers == { "reference_data", "reference_fft", "input_data", "input_fft",
                "correlation_fft", "correlation_ifft",
                "pre_callback_userdata", "pre_callback_userdata_correlation",
                "post_callback_userdata" }

\* callback parameter buffers held only in a local of the plan factory
PlanUserdata == { "reference_plan_userdata", "input_plan_userdata" }

Buffers == CtxBuffers \cup PlanUserdata

CtxFields == Plans \cup CtxBuffers

ObjNames == Buffers \cup Plans \cup { "queue", "context" }

\* clReleaseMemObject / clfftDestroyPlan / clReleaseCommandQueue /
\* clReleaseContext on the object a handle names
Release(o, n) ==
    [o EXCEPT ![n] = IF @ = "alive" THEN "released" ELSE "released2"]

Create(o, n) == [o EXCEPT ![n] = "alive"]

RECURSIVE ReleaseAll(_, _)
ReleaseAll(o, s) ==
    IF s = << >> THEN o ELSE ReleaseAll(Release(o, Head(s)), Tail(s))

FreshCtx ==
    [ initialized |-> FALSE, is_cleaned_up |-> FALSE,
      h |-> [f \in CtxFields |-> FALSE] ]

----------------------------------------------------------------------------
(* FFTHandler::initialize *)

Stage(fp, creates, sets, rel) ==
    [ fp |-> fp, creates |-> creates, sets |-> sets, rel |-> rel ]

\* The calls of FFTHandler::initialize that can report failure, in program
\* order: what the call creates, which ctx_ members are assigned once it has
\* succeeded, and what the failure branch releases before it throws.
InitStages ==
    << Stage("alloc_reference_data", {"reference_data"}, {"reference_data"}, {}),
       Stage("alloc_reference_fft", {"reference_fft"}, {"reference_fft"}, {}),
       Stage("alloc_input_data", {"input_data"}, {"input_data"}, {}),
       Stage("alloc_input_fft", {"input_fft"}, {"input_fft"}, {}),
       Stage("alloc_correlation_fft", {"correlation_fft"}, {"correlation_fft"}, {}),
       Stage("alloc_correlation_ifft", {"correlation_ifft"}, {"correlation_ifft"}, {}),
       Stage("refplan_create", {"reference_fft_plan"}, {}, {}),
       Stage("refplan_userdata", {"reference_plan_userdata"}, {}, {}),
       Stage("refplan_write", {}, {}, {"reference_plan_userdata"}),
       Stage("refplan_precallback", {}, {}, {"reference_plan_userdata"}),
       Stage("refplan_postcallback", {}, {}, {"reference_plan_userdata"}),
       Stage("refplan_bake", {}, {"reference_fft_plan"}, {"reference_plan_userdata"}),
       Stage("inplan_create", {"input_fft_plan"}, {}, {}),
       Stage("inplan_userdata", {"input_plan_userdata"}, {}, {}),
       Stage("inplan_write", {}, {}, {"input_plan_userdata"}),
       Stage("inplan_precallback", {}, {}, {"input_plan_userdata"}),
       Stage("inplan_bake", {}, {"input_fft_plan"}, {"input_plan_userdata"}),
       Stage("postud_create", {"post_callback_userdata"}, {"post_callback_userdata"}, {}),
       Stage("postud_write", {}, {}, {}),
       Stage("corrplan_create", {"correlation_ifft_plan"}, {}, {}),
       Stage("corrplan_userdata", {"pre_callback_userdata_correlation"}, {}, {}),
       Stage("corrplan_write", {}, {}, {"pre_callback_userdata_correlation"}),
       Stage("corrplan_precallback", {}, {"pre_callback_userdata_correlation"},
             {"pre_callback_userdata_correlation"}),
       Stage("corrplan_postcallback", {}, {}, {"pre_callback_userdata_correlation"}),
       Stage("corrplan_bake", {}, {"correlation_ifft_plan"},
             {"pre_callback_userdata_correlation"}),
       Stage("preud_create", {"pre_callback_userdata"}, {"pre_callback_userdata"}, {}),
       Stage("preud_write", {}, {}, {}) >>

NumStages == Len(InitStages)

\* what the first k calls create, and the ctx_ members they assign
CreatedBy == [k \in 0..NumStages |-> UNION { InitStages[i].creates : i \in 1..k }]

AssignedBy == [k \in 0..NumStages |-> UNION { InitStages[i].sets : i \in 1..k }]

\* ctx_ and the device objects after the first k calls have succeeded
RunStages(k, c, o) ==
    [ c |-> [c EXCEPT !.h = [f \in CtxFields |-> @[f] \/ f \in AssignedBy[k]]],
      o |-> [n \in ObjNames |-> IF n \in CreatedBy[k] THEN "alive" ELSE o[n]] ]

\* an initialize that does not look at the status of its calls
HandlerInitialize_IgnoresStatus(k, c, o) ==
    LET p == RunStages(NumStages, c, o)
    IN [ c |-> [p.c EXCEPT !.initialized = TRUE], o |-> p.o, threw |-> FALSE ]

\* FFTHandler::initialize with call number k failing (k = 0: none fails).
\* Returns ctx_, the device objects and whether it threw.
HandlerInitialize(k, c, o) ==
    IF c.initialized THEN [c |-> c, o |-> o, threw |-> FALSE]
    ELSE IF k = 0
         THEN LET p == RunStages(NumStages, c, o)
              IN [ c |-> [p.c EXCEPT !.initialized = TRUE], o |-> p.o,
                   threw |-> FALSE ]
         ELSE LET p == RunStages(k - 1, c, o)
                  s == InitStages[k]
              IN [ c |-> p.c,
                   o |-> [n \in ObjNames |->
                            IF n \in s.rel THEN Release(p.o, n)[n] ELSE p.o[n]],
                   threw |-> TRUE ]

----------------------------------------------------------------------------
(* FFTHandler::cleanup *)

\* The order in which FFTHandler::cleanup visits the members of ctx_
CleanupOrder_BuffersFirst ==
    << "reference_data", "reference_fft", "input_data", "input_fft",
       "correlation_fft", "correlation_ifft",
       "reference_fft_plan", "input_fft_plan", "correlation_ifft_plan",
       "pre_callback_userdata", "post_callback_userdata" >>

CleanupOrder ==
    << "reference_fft_plan", "input_fft_plan", "correlation_ifft_plan",
       "reference_data", "reference_fft", "input_data", "input_fft",
       "correlation_fft", "correlation_ifft",
       "pre_callback_userdata", "post_callback_userdata" >>

\* the members of a list that are set in ctx_
RECURSIVE HeldOf(_, _)
HeldOf(c, s) ==
    IF s = << >> THEN << >>
    ELSE IF c.h[Head(s)] THEN << Head(s) >> \o HeldOf(c, Tail(s))
         ELSE HeldOf(c, Tail(s))

SeqSet(s) == { s[i] : i \in 1..Len(s) }

\* Returns ctx_, the device objects and the releases made, in order.
HandlerCleanup(c, o) ==
    IF ~c.initialized \/ c.is_cleaned_up
    THEN [c |-> c, o |-> o, log |-> << >>]
    ELSE LET rel == HeldOf(c, CleanupOrder)
         IN [ c |-> [ initialized |-> FALSE, is_cleaned_up |-> TRUE,
                      h |-> [f \in CtxFields |->
                               IF f \in SeqSet(rel) THEN FALSE ELSE c.h[f]] ],
              o |-> ReleaseAll(o, rel),
              log |-> rel ]

----------------------------------------------------------------------------
(* OpenCLFFTBackend *)

\* OpenCLFFTBackend::isInitialized
isInitialized_NotChecked == TRUE

isInitialized == initialized_ /\ fft_handler_

\* OpenCLFFTBackend::cleanup on a backend with the given members.  reset()
\* runs ~FFTHandler, which calls FFTHandler::cleanup a second time.
\* "stale" tells whether a release was made through a handle whose object
\* had already been released.
BackendCleanup(hasHandler, c, hasQueue, hasContext, o) ==
    LET h1 == IF hasHandler THEN HandlerCleanup(c, o)
              ELSE [c |-> c, o |-> o, log |-> << >>]
        h2 == IF hasHandler THEN HandlerCleanup(h1.c, h1.o)
              ELSE h1
        lq == IF hasQueue THEN << "queue" >> ELSE << >>
        lc == IF hasContext THEN << "context" >> ELSE << >>
        log == h1.log \o h2.log \o lq \o lc
    IN [ o |-> ReleaseAll(h2.o, lq \o lc),
         log |-> log,
         stale |-> \E i \in 1..Len(log) : o[log[i]] # "alive" ]

NewCall(op, result, backend) ==
    [ op |-> op, result |-> result, backend |-> backend ]

EmptyFrame == [ evt |-> 0, t |-> << >> ]

DataBufs == { "reference_data", "reference_fft", "input_data", "input_fft",
              "userdata_reference", "userdata_input", "peaks" }

Uninit == [b \in DataBufs |-> "uninit"]

BackendFailPoints == { "platform", "device", "context", "queue" }

\* CorrelationPipeline::initialize -> OpenCLFFTBackend::initialize, with at
\* most one call reporting failure: one of the four bootstrap calls, or call
\* number k of FFTHandler::initialize.
Initialize ==
    /\ UNCHANGED << cfg, cb, backend_cfg, run >>
    /\ pc = "idle"
    /\ UNCHANGED << flags, timings, snapshot, ops, frame >>
    /\ pc' = pc
    /\ IF initialized_
       THEN /\ call' = NewCall("initialize", "true", TRUE)
            /\ UNCHANGED << initialized_, fft_handler_, context_, queue_, ctx,
                            obj, data, faults, relLog >>
       ELSE \/ /\ faults < MaxFaults
               /\ faults' = faults + 1
               /\ call' = NewCall("initialize", "false", TRUE)
               /\ UNCHANGED << initialized_, fft_handler_, ctx, data, relLog >>
               /\ \E fp \in BackendFailPoints :
                     CASE fp \in { "platform", "device" } ->
                            UNCHANGED << context_, queue_, obj >>
                       [] fp = "context" ->
                            /\ context_' = FALSE
                            /\ UNCHANGED << queue_, obj >>
                       [] fp = "queue" ->
                            \* clReleaseContext(context_); return false;
                            /\ context_' = TRUE
                            /\ queue_' = FALSE
                            /\ obj' = Release(Create(obj, "context"), "context")
            \/ \E k \in 0..NumStages :
                  LET o0 == Create(Create(obj, "context"), "queue")
                      hi == HandlerInitialize(k, FreshCtx, o0)
                      bc == BackendCleanup(TRUE, hi.c, TRUE, TRUE, hi.o)
                  IN /\ k > 0 => faults < MaxFaults
                     /\ faults' = IF k > 0 THEN faults + 1 ELSE faults
                     /\ data' = Uninit
                     /\ IF hi.threw
                        THEN \* catch (...) { cleanup(); return false; }
                             /\ obj' = bc.o
                             /\ relLog' = bc.log
                             /\ ctx' = FreshCtx
                             /\ fft_handler_' = FALSE
                             /\ context_' = FALSE
                             /\ queue_' = FALSE
                             /\ initialized_' = FALSE
                             /\ call' = NewCall("initialize", "false", TRUE)
                        ELSE /\ obj' = hi.o
                             /\ UNCHANGED relLog
                             /\ ctx' = hi.c
                             /\ fft_handler_' = TRUE
                             /\ context_' = TRUE
                             /\ queue_' = TRUE
                             /\ initialized_' = TRUE
                             /\ call' = NewCall("initialize", "true", TRUE)

\* CorrelationPipeline::cleanup -> OpenCLFFTBackend::cleanup.  A release
\* through a handle whose object is gone either reports an error status,
\* which cleanup ignores, or faults.
CleanupBody(op, donepc) ==
    LET bc == BackendCleanup(fft_handler_, ctx, queue_, context_, obj)
    IN /\ obj' = bc.o
       /\ relLog' = bc.log
       /\ UNCHANGED << flags, timings, snapshot, data, ops, frame, faults >>
       /\ \/ /\ ctx' = FreshCtx
             /\ fft_handler_' = FALSE
             /\ queue_' = FALSE
             /\ context_' = FALSE
             /\ initialized_' = FALSE
             /\ pc' = donepc
             /\ call' = NewCall(op, "void", TRUE)
          \/ /\ bc.stale
             /\ pc' = "crashed"
             /\ call' = NewCall(op, "crash", TRUE)
             /\ UNCHANGED << ctx, fft_handler_, queue_, context_, initialized_ >>

Cleanup ==
    /\ UNCHANGED << cfg, cb, backend_cfg, run >>
    /\ pc = "idle"
    /\ CleanupBody("cleanup", "idle")

\* CorrelationPipeline::~CorrelationPipeline
Destructor ==
    /\ UNCHANGED << cfg, cb, backend_cfg, run >>
    /\ pc = "idle"
    /\ CleanupBody("destructor", "destroyed")

----------------------------------------------------------------------------
(* The command queue and the device *)

Op(kind, step, waits) ==
    [ kind |-> kind, step |-> step, waits |-> waits, st |-> "queued" ]

Finished(i) == ops[i].st \in { "done", "failed" }

AllFinished == \A i \in 1..Len(ops) : Finished(i)

\* The queue is created with CL_QUEUE_PROFILING_ENABLE only, so it is an
\* in-order queue: a command starts after every command enqueued before it.
InOrderReady_OutOfOrder(i) == TRUE

InOrderReady(i) == \A j \in 1..(i - 1) : Finished(j)

Derive(x) == IF x = "valid" THEN "valid" ELSE "garbage"

\* what a command that completes leaves in the device buffers
Effect(kind, d) ==
    CASE kind = "s1_upload" -> [d EXCEPT !["reference_data"] = "valid"]
      [] kind = "s1_fft" ->
            [d EXCEPT !["reference_fft"] = Derive(d["reference_data"])]
      [] kind = "s2_upload" -> [d EXCEPT !["input_data"] = "valid"]
      [] kind = "s2_fft" ->
            [d EXCEPT !["input_fft"] = Derive(d["input_data"])]
      [] kind = "s3_copy_ref" ->
            [d EXCEPT !["userdata_reference"] = d["reference_fft"]]
      [] kind = "s3_copy_input" ->
            [d EXCEPT !["userdata_input"] = d["input_fft"]]
      [] kind = "s3_ifft" ->
            [d EXCEPT !["peaks"] =
                IF d["userdata_reference"] = "valid" /\ d["userdata_input"] = "valid"
                THEN "valid" ELSE "garbage"]
      [] OTHER -> d

HostVars == << flags, timings, snapshot, initialized_, fft_handler_, context_,
               queue_, ctx, obj, pc, frame, call, relLog >>

\* a queued command whose wait list has completed starts executing
DeviceStart ==
    /\ UNCHANGED << cfg, cb, backend_cfg, run >>
    /\ \E i \in 1..Len(ops) :
        /\ ops[i].st = "queued"
        /\ InOrderReady(i)
        /\ \A j \in ops[i].waits : ops[j].st = "done"
        /\ ops' = [ops EXCEPT ![i].st = "running"]
        /\ UNCHANGED << HostVars, data, faults >>

\* a queued command is terminated when an event of its wait list ended with
\* an error
DeviceAbort ==
    /\ UNCHANGED << cfg, cb, backend_cfg, run >>
    /\ \E i \in 1..Len(ops) :
        /\ ops[i].st = "queued"
        /\ InOrderReady(i)
        /\ \A j \in ops[i].waits : Finished(j)
        /\ \E j \in ops[i].waits : ops[j].st = "failed"
        /\ ops' = [ops EXCEPT ![i].st = "failed"]
        /\ UNCHANGED << HostVars, data, faults >>

DeviceComplete ==
    /\ UNCHANGED << cfg, cb, backend_cfg, run >>
    /\ \E i \in 1..Len(ops) :
        /\ ops[i].st = "running"
        /\ ops' = [ops EXCEPT ![i].st = "done"]
        /\ data' = Effect(ops[i].kind, data)
        /\ UNCHANGED << HostVars, faults >>

\* a running command ends with a negative execution status
DeviceFail ==
    /\ UNCHANGED << cfg, cb, backend_cfg, run >>
    /\ \E i \in 1..Len(ops) :
        /\ ops[i].st = "running"
        /\ faults < MaxFaults
        /\ faults' = faults + 1
        /\ ops' = [ops EXCEPT ![i].st = "failed"]
        /\ UNCHANGED << HostVars, data >>

\* The outcomes of clWaitForEvents on event i: success once the command is
\* complete, an error once it has ended with an error, or an error status
\* of the runtime itself (cost 1) while the command has not failed.
WaitOutcomes_WithTimeout(i) ==
    { w \in [ ok : BOOLEAN, cost : {0, 1} ] :
        \/ w.ok /\ w.cost = 0 /\ ops[i].st = "done"
        \/ ~w.ok /\ w.cost = 0 /\ ops[i].st # "done" }

WaitOutcomes(i) ==
    { w \in [ ok : BOOLEAN, cost : {0, 1} ] :
        \/ w.ok /\ w.cost = 0 /\ ops[i].st = "done"
        \/ ~w.ok /\ w.cost = 0 /\ ops[i].st = "failed"
        \/ ~w.ok /\ w.cost = 1 /\ ops[i].st # "failed" }

\* profile_event_detailed: the timing of event i, all zero when the wait
\* reported an error
Timing(i, ok) == IF ok THEN i ELSE 0

\* the step ends, reporting failure to the caller
StepFails(cost) ==
    /\ faults' = faults + cost
    /\ call' = [call EXCEPT !.result = "false"]
    /\ pc' = "idle"
    /\ frame' = EmptyFrame

Returns(op, result, backend) ==
    /\ call' = NewCall(op, result, backend)
    /\ UNCHANGED << flags, timings, snapshot, initialized_, fft_handler_,
                    context_, queue_, ctx, obj, data, ops, pc, frame, relLog,
                    faults >>

BackendVars == << initialized_, fft_handler_, context_, queue_, ctx, obj,
                  relLog >>

----------------------------------------------------------------------------
(* Step 1: reference signal, forward transform *)

\* executeStep1: if (step1_completed_) return true;
Step1Skip_Never == FALSE

Step1Skip == step1_completed_

\* the wait list of the reference transform: 1, &event_upload
Step1_FFTWaitList_Empty(event_upload) == {}

Step1_FFTWaitList(event_upload) == { event_upload }

\* executeStep1 up to the wait for the upload
ExecuteStep1 ==
    /\ UNCHANGED << cfg, cb, backend_cfg, run >>
    /\ pc = "idle"
    /\ IF Step1Skip
       THEN Returns("executeStep1", "true", FALSE)
       ELSE IF ~isInitialized
       THEN Returns("executeStep1", "false", TRUE)
       ELSE /\ UNCHANGED << flags, timings, snapshot, BackendVars, data >>
            /\ \/ \* clEnqueueWriteBuffer reports an error
                  /\ faults < MaxFaults
                  /\ faults' = faults + 1
                  /\ call' = NewCall("executeStep1", "false", TRUE)
                  /\ UNCHANGED << ops, pc, frame >>
               \/ /\ ops' = Append(ops, Op("s1_upload", 1, {}))
                  /\ frame' = [ evt |-> Len(ops) + 1, t |-> << >> ]
                  /\ pc' = "s1_upload"
                  /\ call' = NewCall("executeStep1", "pending", TRUE)
                  /\ UNCHANGED faults

\* profile_event_detailed(event_upload), then clfftEnqueueTransform
Step1_AfterUpload ==
    /\ UNCHANGED << cfg, cb, backend_cfg, run >>
    /\ pc = "s1_upload"
    /\ UNCHANGED << flags, timings, snapshot, BackendVars, data >>
    /\ \E w \in WaitOutcomes(frame.evt) :
          \/ \* clfftEnqueueTransform reports an error
             /\ faults + w.cost < MaxFaults
             /\ StepFails(w.cost + 1)
             /\ UNCHANGED ops
          \/ /\ faults + w.cost <= MaxFaults
             /\ faults' = faults + w.cost
             /\ ops' = Append(ops, Op("s1_fft", 1, Step1_FFTWaitList(frame.evt)))
             /\ frame' = [ evt |-> Len(ops) + 1,
                           t |-> << Timing(frame.evt, w.ok) >> ]
             /\ pc' = "s1_fft"
             /\ UNCHANGED call

\* profile_event_detailed(event_fft), clWaitForEvents and clFinish, whose
\* errors are only logged; then the pipeline stores the timings and
\* getReferenceFFT enqueues its blocking read
Step1_AfterFFT ==
    /\ UNCHANGED << cfg, cb, backend_cfg, run >>
    /\ pc = "s1_fft"
    /\ UNCHANGED << flags, snapshot, BackendVars, data >>
    /\ \E w \in WaitOutcomes(frame.evt) :
          /\ w.cost = 0 => AllFinished
          /\ timings' = [timings EXCEPT ![1] =
                            Append(frame.t, Timing(frame.evt, w.ok))]
          /\ \/ \* clEnqueueReadBuffer reports an error
                /\ faults + w.cost < MaxFaults
                /\ StepFails(w.cost + 1)
                /\ UNCHANGED ops
             \/ /\ faults + w.cost <= MaxFaults
                /\ faults' = faults + w.cost
                /\ ops' = Append(ops, Op("s1_read", 1, {}))
                /\ frame' = [ evt |-> Len(ops) + 1, t |-> << >> ]
                /\ pc' = "s1_read"
                /\ UNCHANGED call

\* the blocking read returns; snapshot, validation, export, flag
Step1_AfterRead ==
    /\ UNCHANGED << cfg, cb, backend_cfg, run >>
    /\ pc = "s1_read"
    /\ Finished(frame.evt)
    /\ UNCHANGED << timings, BackendVars, data, ops, step2_completed_,
                    step3_completed_ >>
    /\ IF ops[frame.evt].st = "done"
       THEN /\ snapshot' = [snapshot EXCEPT ![1] =
                    [ src |-> data["reference_fft"], evt |-> frame.evt ]]
            /\ step1_completed_' = TRUE
            /\ call' = [call EXCEPT !.result = "true"]
            /\ pc' = "idle"
            /\ frame' = EmptyFrame
            /\ UNCHANGED faults
       ELSE /\ StepFails(0)
            /\ UNCHANGED << snapshot, step1_completed_ >>

----------------------------------------------------------------------------
(* Step 2: input signals, forward transform *)

\* executeStep2: if (!step1_completed_) throw
Step2Precondition_Always == TRUE

Step2Precondition == step1_completed_

Step2Skip_Never == FALSE

Step2Skip == step2_completed_

\* the wait list of the input transform: 1, &event_upload
Step2_FFTWaitList(event_upload) == { event_upload }

ExecuteStep2 ==
    /\ UNCHANGED << cfg, cb, backend_cfg, run >>
    /\ pc = "idle"
    /\ IF ~Step2Precondition
       THEN Returns("executeStep2", "throw", FALSE)
       ELSE IF Step2Skip
       THEN Returns("executeStep2", "true", FALSE)
       ELSE IF ~isInitialized
       THEN Returns("executeStep2", "false", TRUE)
       ELSE /\ UNCHANGED << flags, timings, snapshot, BackendVars, data >>
            /\ \/ /\ faults < MaxFaults
                  /\ faults' = faults + 1
                  /\ call' = NewCall("executeStep2", "false", TRUE)
                  /\ UNCHANGED << ops, pc, frame >>
               \/ /\ ops' = Append(ops, Op("s2_upload", 2, {}))
                  /\ frame' = [ evt |-> Len(ops) + 1, t |-> << >> ]
                  /\ pc' = "s2_upload"
                  /\ call' = NewCall("executeStep2", "pending", TRUE)
                  /\ UNCHANGED faults

Step2_AfterUpload ==
    /\ UNCHANGED << cfg, cb, backend_cfg, run >>
    /\ pc = "s2_upload"
    /\ UNCHANGED << flags, timings, snapshot, BackendVars, data >>
    /\ \E w \in WaitOutcomes(frame.evt) :
          \/ /\ faults + w.cost < MaxFaults
             /\ StepFails(w.cost + 1)
             /\ UNCHANGED ops
          \/ /\ faults + w.cost <= MaxFaults
             /\ faults' = faults + w.cost
             /\ ops' = Append(ops, Op("s2_fft", 2, Step2_FFTWaitList(frame.evt)))
             /\ frame' = [ evt |-> Len(ops) + 1,
                           t |-> << Timing(frame.evt, w.ok) >> ]
             /\ pc' = "s2_fft"
             /\ UNCHANGED call

\* clWaitForEvents(event_fft): an error throws; then the timings are stored
\* and getInputFFT enqueues its blocking read
Step2_AfterFFT ==
    /\ UNCHANGED << cfg, cb, backend_cfg, run >>
    /\ pc = "s2_fft"
    /\ UNCHANGED << flags, snapshot, BackendVars, data >>
    /\ \E w \in WaitOutcomes(frame.evt) :
          IF ~w.ok
          THEN /\ faults + w.cost <= MaxFaults
               /\ StepFails(w.cost)
               /\ UNCHANGED << ops, timings >>
          ELSE /\ timings' = [timings EXCEPT ![2] =
                                 Append(frame.t, Timing(frame.evt, TRUE))]
               /\ \/ /\ faults < MaxFaults
                     /\ StepFails(1)
                     /\ UNCHANGED ops
                  \/ /\ ops' = Append(ops, Op("s2_read", 2, {}))
                     /\ frame' = [ evt |-> Len(ops) + 1, t |-> << >> ]
                     /\ pc' = "s2_read"
                     /\ UNCHANGED << call, faults >>

Step2_AfterRead ==
    /\ UNCHANGED << cfg, cb, backend_cfg, run >>
    /\ pc = "s2_read"
    /\ Finished(frame.evt)
    /\ UNCHANGED << timings, BackendVars, data, ops, step1_completed_,
                    step3_completed_ >>
    /\ IF ops[frame.evt].st = "done"
       THEN /\ snapshot' = [snapshot EXCEPT ![2] =
                    [ src |-> data["input_fft"], evt |-> frame.evt ]]
            /\ step2_completed_' = TRUE
            /\ call' = [call EXCEPT !.result = "true"]
            /\ pc' = "idle"
            /\ frame' = EmptyFrame
            /\ UNCHANGED faults
       ELSE /\ StepFails(0)
            /\ UNCHANGED << snapshot, step2_completed_ >>

----------------------------------------------------------------------------
(* Step 3: correlation *)

\* executeStep3: if (!step1_completed_ || !step2_completed_) throw
Step3Precondition_Step1Only == step1_completed_

Step3Precondition == step1_completed_ /\ step2_completed_

Step3Skip == step3_completed_

\* the wait lists of the second copy, of the inverse transform and of the
\* read of the peaks
Step3_CopyInputWaitList(event_copy_ref) == { event_copy_ref }

Step3_IFFTWaitList_Empty(event_copy_data) == {}

Step3_IFFTWaitList(event_copy_data) == { event_copy_data }

Step3_DownloadWaitList(event_ifft) == { event_ifft }

\* executeStep3 up to the wait for the copies into the userdata buffer
ExecuteStep3 ==
    /\ UNCHANGED << cfg, cb, backend_cfg, run >>
    /\ pc = "idle"
    /\ IF ~Step3Precondition
       THEN Returns("executeStep3", "throw", FALSE)
       ELSE IF Step3Skip
       THEN Returns("executeStep3", "true", FALSE)
       ELSE IF ~isInitialized
       THEN Returns("executeStep3", "false", TRUE)
       ELSE IF ~ctx.h["pre_callback_userdata_correlation"]
               \/ ~ctx.h["reference_fft"] \/ ~ctx.h["input_fft"]
       THEN Returns("executeStep3", "false", TRUE)
       ELSE /\ UNCHANGED << flags, timings, snapshot, BackendVars, data >>
            /\ \/ \* the first clEnqueueCopyBuffer reports an error
                  /\ faults < MaxFaults
                  /\ faults' = faults + 1
                  /\ call' = NewCall("executeStep3", "false", TRUE)
                  /\ UNCHANGED << ops, pc, frame >>
               \/ \* the second clEnqueueCopyBuffer reports an error
                  /\ faults < MaxFaults
                  /\ faults' = faults + 1
                  /\ call' = NewCall("executeStep3", "false", TRUE)
                  /\ ops' = Append(ops, Op("s3_copy_ref", 3, {}))
                  /\ UNCHANGED << pc, frame >>
               \/ /\ ops' = ops \o
                        << Op("s3_copy_ref", 3, {}),
                           Op("s3_copy_input", 3,
                              Step3_CopyInputWaitList(Len(ops) + 1)) >>
                  /\ frame' = [ evt |-> Len(ops) + 2, t |-> << >> ]
                  /\ pc' = "s3_copy"
                  /\ call' = NewCall("executeStep3", "pending", TRUE)
                  /\ UNCHANGED faults

\* profile_event_detailed(event_copy_data), then clfftEnqueueTransform
Step3_AfterCopy ==
    /\ UNCHANGED << cfg, cb, backend_cfg, run >>
    /\ pc = "s3_copy"
    /\ UNCHANGED << flags, timings, snapshot, BackendVars, data >>
    /\ \E w \in WaitOutcomes(frame.evt) :
          \/ /\ faults + w.cost < MaxFaults
             /\ StepFails(w.cost + 1)
             /\ UNCHANGED ops
          \/ /\ faults + w.cost <= MaxFaults
             /\ faults' = faults + w.cost
             /\ ops' = Append(ops, Op("s3_ifft", 3, Step3_IFFTWaitList(frame.evt)))
             /\ frame' = [ evt |-> Len(ops) + 1,
                           t |-> << Timing(frame.evt, w.ok) >> ]
             /\ pc' = "s3_ifft"
             /\ UNCHANGED call

\* profile_event_detailed(event_ifft), then clEnqueueReadBuffer of the peaks
Step3_AfterIFFT ==
    /\ UNCHANGED << cfg, cb, backend_cfg, run >>
    /\ pc = "s3_ifft"
    /\ UNCHANGED << flags, timings, snapshot, BackendVars, data >>
    /\ \E w \in WaitOutcomes(frame.evt) :
          \/ /\ faults + w.cost < MaxFaults
             /\ StepFails(w.cost + 1)
             /\ UNCHANGED ops
          \/ /\ faults + w.cost <= MaxFaults
             /\ faults' = faults + w.cost
             /\ ops' = Append(ops, Op("s3_download", 3,
                                      Step3_DownloadWaitList(frame.evt)))
             /\ frame' = [ evt |-> Len(ops) + 1,
                           t |-> Append(frame.t, Timing(frame.evt, w.ok)) ]
             /\ pc' = "s3_download"
             /\ UNCHANGED call

\* profile_event_detailed(event_download) and clWaitForEvents, whose error
\* throws; then the timings are stored and getCorrelationPeaks enqueues its
\* blocking read
Step3_AfterDownload ==
    /\ UNCHANGED << cfg, cb, backend_cfg, run >>
    /\ pc = "s3_download"
    /\ UNCHANGED << flags, snapshot, BackendVars, data >>
    /\ \E w \in WaitOutcomes(frame.evt) :
          IF ~w.ok
          THEN /\ faults + w.cost <= MaxFaults
               /\ StepFails(w.cost)
               /\ UNCHANGED << ops, timings >>
          ELSE /\ timings' = [timings EXCEPT ![3] =
                                 Append(frame.t, Timing(frame.evt, TRUE))]
               /\ \/ /\ faults < MaxFaults
                     /\ StepFails(1)
                     /\ UNCHANGED ops
                  \/ /\ ops' = Append(ops, Op("s3_read", 3, {}))
                     /\ frame' = [ evt |-> Len(ops) + 1, t |-> << >> ]
                     /\ pc' = "s3_read"
                     /\ UNCHANGED << call, faults >>

Step3_AfterRead ==
    /\ UNCHANGED << cfg, cb, backend_cfg, run >>
    /\ pc = "s3_read"
    /\ Finished(frame.evt)
    /\ UNCHANGED << timings, BackendVars, data, ops, step1_completed_,
                    step2_completed_ >>
    /\ IF ops[frame.evt].st = "done"
       THEN /\ snapshot' = [snapshot EXCEPT ![3] =
                    [ src |-> data["peaks"], evt |-> frame.evt ]]
            /\ step3_completed_' = TRUE
            /\ call' = [call EXCEPT !.result = "true"]
            /\ pc' = "idle"
            /\ frame' = EmptyFrame
            /\ UNCHANGED faults
       ELSE /\ StepFails(0)
            /\ UNCHANGED << snapshot, step3_completed_ >>

\* OpenCLFFTBackend::getCorrelationPeaks, called by a client on the backend
\* that getBackend() hands out: a blocking read of the peaks, which returns
\* once every command enqueued before it has finished
GetCorrelationPeaks ==
    /\ UNCHANGED << cfg, cb, backend_cfg, run >>
    /\ pc = "idle"
    /\ IF ~isInitialized \/ ~ctx.initialized \/ ~ctx.h["post_callback_userdata"]
       THEN Returns("getCorrelationPeaks", "false", TRUE)
       ELSE /\ AllFinished
            /\ UNCHANGED << flags, timings, snapshot, BackendVars, data, ops,
                            pc, frame >>
            /\ \/ \* clEnqueueReadBuffer reports an error
                  /\ faults < MaxFaults
                  /\ faults' = faults + 1
                  /\ call' = NewCall("getCorrelationPeaks", "false", TRUE)
               \/ /\ UNCHANGED faults
                  /\ call' = NewCall("getCorrelationPeaks", "true", TRUE)

\* OpenCLFFTBackend::getReferenceFFT and getInputFFT, called by a client:
\* a blocking read of the spectra
GetSpectrum(op, buf) ==
    /\ pc = "idle"
    /\ IF ~isInitialized \/ ~ctx.initialized \/ ~ctx.h[buf] \/ ctx.is_cleaned_up
       THEN Returns(op, "false", TRUE)
       ELSE /\ AllFinished
            /\ UNCHANGED << flags, timings, snapshot, BackendVars, data, ops,
                            pc, frame >>
            /\ \/ \* clEnqueueReadBuffer reports an error
                  /\ faults < MaxFaults
                  /\ faults' = faults + 1
                  /\ call' = NewCall(op, "false", TRUE)
               \/ /\ UNCHANGED faults
                  /\ call' = NewCall(op, "true", TRUE)

GetReferenceFFT ==
    /\ UNCHANGED << cfg, cb, backend_cfg, run >>
    /\ GetSpectrum("getReferenceFFT", "reference_fft")

GetInputFFT ==
    /\ UNCHANGED << cfg, cb, backend_cfg, run >>
    /\ GetSpectrum("getInputFFT", "input_fft")

----------------------------------------------------------------------------
(* Configuration and buffer layout *)

NMax == 3

ShiftsMax == 2

SignalsMax == 2

KgMax == 3

\* Configuration::validate
Validate(c) ==
    /\ c.N > 0 /\ c.num_shifts > 0 /\ c.num_signals > 0 /\ c.n_kg > 0
    /\ c.scale_factor > 0

\* scale factors, in units of the scale factor of the default configuration
ScaleFactors == { 0, 1 }

\* the configurations a pipeline can be constructed with
Configs ==
    { c \in [ N : 0..NMax, num_shifts : 0..ShiftsMax,
              num_signals : 0..SignalsMax, n_kg : 0..KgMax,
              scale_factor : ScaleFactors ] : Validate(c) }

\* the configurations of the pipelines whose steps are run
PipelineConfigs ==
    { [ N |-> 2, num_shifts |-> 2, num_signals |-> 1, n_kg |-> 1,
        scale_factor |-> 1 ],
      [ N |-> 1, num_shifts |-> 1, num_signals |-> 2, n_kg |-> 2,
        scale_factor |-> 1 ] }

SizeofInt32 == 4

SizeofUint == 4

SizeofFloat == 4

SizeofFloat2 == 8

\* sizeof(ComplexMultiplyParams): four cl_uint, on the host where the buffer
\* is allocated, on the host in step 3, and in the callback source
Factory_ParamsSize == 4 * SizeofUint

Step3_ParamsSize == 4 * SizeofUint

Device_SizeofComplexMultiplyParams == 4 * SizeofUint

\* the header of the peaks buffer: PostCallbackParams::to_vector has five
\* words, the struct of the callback source has six
PostParamsSizeInBuffer_ToVector == 5 * SizeofUint

PostParamsSizeInBuffer == 6 * SizeofUint

Step3_PostParamsSize_ToVector == 5 * SizeofUint

Step3_PostParamsSize == 6 * SizeofUint

GetPeaks_PostParamsSize == 6 * SizeofUint

Device_SizeofPostCallbackParams == 6 * SizeofUint

\* The regions each device buffer is allocated with, in order; the size of
\* the buffer is their sum.
AllocRegions(c) ==
    [ reference_data |-> << c.N * SizeofInt32 >>,
      reference_fft |-> << c.num_shifts * c.N * SizeofFloat2 >>,
      input_data |-> << c.num_signals * c.N * SizeofInt32 >>,
      input_fft |-> << c.num_signals * c.N * SizeofFloat2 >>,
      correlation_fft |-> << c.num_signals * c.num_shifts * c.N * SizeofFloat2 >>,
      correlation_ifft |-> << c.num_signals * c.num_shifts * c.N * SizeofFloat2 >>,
      pre_callback_userdata_correlation |->
          << Factory_ParamsSize,
             c.num_shifts * c.N * SizeofFloat2,
             c.num_signals * c.N * SizeofFloat2 >>,
      post_callback_userdata |->
          << PostParamsSizeInBuffer,
             c.num_signals * c.num_shifts * c.n_kg * SizeofFloat >> ]

RECURSIVE Sum(_)
Sum(s) == IF s = << >> THEN 0 ELSE Head(s) + Sum(Tail(s))

AllocSize(c, buf) == Sum(AllocRegions(c)[buf])

Access(buf, mode, off, size) ==
    [ buf |-> buf, mode |-> mode, off |-> off, size |-> size ]

\* step 3: destination offsets of the two copies into the userdata buffer
CopyRefDstOffset(c) == Step3_ParamsSize

CopyInputDstOffset_NoReference(c) == Step3_ParamsSize

CopyInputDstOffset(c) == Step3_ParamsSize + c.num_shifts * c.N * SizeofFloat2

\* The byte ranges the transfers issued by the host read and write, with
\* the arguments the pipeline passes (the configured values).
HostKinds == { "s1_upload", "s1_read", "s2_upload", "s2_read", "s3_copy_ref",
               "s3_copy_input", "s3_download", "s3_read" }

HostAccesses(kind, c) ==
    CASE kind = "s1_upload" ->
            { Access("reference_data", "w", 0, c.N * SizeofInt32) }
      [] kind = "s1_read" ->
            { Access("reference_fft", "r", 0, AllocSize(c, "reference_fft")) }
      [] kind = "s2_upload" ->
            { Access("input_data", "w", 0, c.num_signals * c.N * SizeofInt32) }
      [] kind = "s2_read" ->
            { Access("input_fft", "r", 0, AllocSize(c, "input_fft")) }
      [] kind = "s3_copy_ref" ->
            { Access("reference_fft", "r", 0, c.num_shifts * c.N * SizeofFloat2),
              Access("pre_callback_userdata_correlation", "w",
                     CopyRefDstOffset(c), c.num_shifts * c.N * SizeofFloat2) }
      [] kind = "s3_copy_input" ->
            { Access("input_fft", "r", 0, c.num_signals * c.N * SizeofFloat2),
              Access("pre_callback_userdata_correlation", "w",
                     CopyInputDstOffset(c), c.num_signals * c.N * SizeofFloat2) }
      [] kind = "s3_download" ->
            { Access("post_callback_userdata", "r", Step3_PostParamsSize,
                     c.num_signals * c.num_shifts * c.n_kg * SizeofFloat) }
      [] kind = "s3_read" ->
            { Access("post_callback_userdata", "r", GetPeaks_PostParamsSize,
                     c.num_signals * c.num_shifts * c.n_kg * SizeofFloat) }

----------------------------------------------------------------------------
(* Callbacks embedded in the plans *)

CMax == 1

\* spectral values: complex numbers with small integer parts
Complex == [ x : -CMax..CMax, y : -CMax..CMax ]

Conj(v) == [ x |-> v.x, y |-> 0 - v.y ]

CMul(a, b) ==
    [ x |-> a.x * b.x - a.y * b.y, y |-> a.x * b.y + a.y * b.x ]

\* reference plan, pre-callback: int val = in[inoffset]
ReferencePreCallback_Index(e, N) == e

\* reference plan, post-callback: out[outoffset] = (x, -y)
ReferencePostCallback(v) == [ x |-> v.x, y |-> 0 - v.y ]

\* the input plan has a pre-callback only: its spectrum is stored as computed
InputPlanOutput(v) == v

\* ComplexMultiplyParams as the plan factory writes it to the buffer
MultiplyParams(c) ==
    [ num_signals |-> c.num_signals, num_shifts |-> c.num_shifts,
      fft_size |-> c.N ]

\* PostCallbackParams as initialize fills it
PostParams(c) ==
    [ num_signals |-> c.num_signals, num_shifts |-> c.num_shifts,
      fft_size |-> c.N, n_kg |-> c.n_kg, search_range |-> c.N \div 2 ]

\* correlation plan, pre-callback: where in the userdata buffer it reads the
\* two factors of input element inoffset
MultiplyPreCallback(inoffset, p) ==
    LET reference_fft == Device_SizeofComplexMultiplyParams
        input_fft == Device_SizeofComplexMultiplyParams
                        + SizeofFloat2 * p.num_shifts * p.fft_size
        element_idx == inoffset % p.fft_size
        window_idx == inoffset \div p.fft_size
        shift_idx == window_idx % p.num_shifts
        signal_idx == window_idx \div p.num_shifts
        ref_idx == shift_idx * p.fft_size + element_idx
        inp_idx == signal_idx * p.fft_size + element_idx
    IN [ reference_fft |-> reference_fft, input_fft |-> input_fft,
         shift_idx |-> shift_idx, signal_idx |-> signal_idx,
         ref_byte |-> reference_fft + SizeofFloat2 * ref_idx,
         inp_byte |-> input_fft + SizeofFloat2 * inp_idx ]

\* correlation plan, pre-callback: result = ref * conj(inp)
MultiplyValue(ref, inp) ==
    [ x |-> ref.x * inp.x + ref.y * inp.y,
      y |-> ref.y * inp.x - ref.x * inp.y ]

\* signal_idx and shift_idx of the post-callback
PeakDecompose_Swapped(window_idx, p) ==
    [ signal_idx |-> window_idx % p.num_shifts,
      shift_idx |-> window_idx \div p.num_shifts ]

PeakDecompose(window_idx, p) ==
    [ signal_idx |-> window_idx \div p.num_shifts,
      shift_idx |-> window_idx % p.num_shifts ]

\* output_idx + pos_in_window
PeakOutputIndex_BySignals(signal_idx, shift_idx, pos_in_window, p) ==
    (signal_idx * p.num_signals + shift_idx) * p.n_kg + pos_in_window

PeakOutputIndex(signal_idx, shift_idx, pos_in_window, p) ==
    (signal_idx * p.num_shifts + shift_idx) * p.n_kg + pos_in_window

\* correlation plan, post-callback: whether output element outoffset is
\* stored, and where
PeakPostCallback(outoffset, p) ==
    LET peaks_output == Device_SizeofPostCallbackParams
        window_idx == outoffset \div p.fft_size
        pos_in_window == outoffset % p.fft_size
        d == PeakDecompose(window_idx, p)
        idx == PeakOutputIndex(d.signal_idx, d.shift_idx, pos_in_window, p)
    IN [ written |-> ~(window_idx >= p.num_signals * p.num_shifts)
                        /\ ~(pos_in_window >= p.n_kg),
         peaks_output |-> peaks_output,
         pos_in_window |-> pos_in_window,
         signal_idx |-> d.signal_idx, shift_idx |-> d.shift_idx,
         index |-> idx,
         byte |-> peaks_output + SizeofFloat * idx ]

\* The byte ranges a transform reads and writes: the input elements its
\* pre-callback reads, the output elements it or its post-callback writes.
DeviceAccesses(kind, c) ==
    CASE kind = "s1_fft" ->
            { Access("reference_data", "r", 0,
                     (ReferencePreCallback_Index(c.num_shifts * c.N - 1, c.N) + 1)
                        * SizeofInt32),
              Access("reference_fft", "w", 0, c.num_shifts * c.N * SizeofFloat2) }
      [] kind = "s2_fft" ->
            { Access("input_data", "r", 0, c.num_signals * c.N * SizeofInt32),
              Access("input_fft", "w", 0, c.num_signals * c.N * SizeofFloat2) }
      [] kind = "s3_ifft" ->
            { Access("pre_callback_userdata_correlation", "r", 0,
                     MultiplyPreCallback(c.num_signals * c.num_shifts * c.N - 1,
                                         MultiplyParams(c)).inp_byte
                        + SizeofFloat2),
              Access("post_callback_userdata", "r", 0,
                     Device_SizeofPostCallbackParams),
              Access("post_callback_userdata", "w",
                     Device_SizeofPostCallbackParams,
                     c.num_signals * c.num_shifts * c.n_kg * SizeofFloat) }

OpAccesses(kind, c) ==
    IF kind \in HostKinds THEN HostAccesses(kind, c) ELSE DeviceAccesses(kind, c)

NoCallback == [ kind |-> "none" ]

\* no transform with the running-maximum callback is executing
NoRun == [ st |-> "none" ]

PipelineVars == << flags, timings, snapshot, initialized_, fft_handler_,
                   context_, queue_, ctx, obj, data, ops, pc, frame, call,
                   relLog, faults, cfg, backend_cfg, run >>

\* the host issues one of its transfers
HostTransfer ==
    /\ \E k \in HostKinds :
          cb' = [ kind |-> "transfer", op |-> k, acc |-> HostAccesses(k, cfg) ]
    /\ UNCHANGED PipelineVars

\* the reference transform fetches input element e
ReferenceElement ==
    /\ \E e \in 0..(cfg.num_shifts * cfg.N - 1) :
          cb' = [ kind |-> "reference", e |-> e,
                  src |-> ReferencePreCallback_Index(e, cfg.N) ]
    /\ UNCHANGED PipelineVars

\* the inverse transform of one window fetches the product at frequency freq
\* and stores output position pos
CorrelationElement ==
    /\ \E w \in 0..(cfg.num_signals * cfg.num_shifts - 1),
          freq \in 0..(cfg.N - 1), pos \in 0..(cfg.N - 1) :
          cb' = [ kind |-> "correlation", window |-> w, freq |-> freq,
                  pre |-> MultiplyPreCallback(w * cfg.N + freq,
                                              MultiplyParams(cfg)),
                  post |-> PeakPostCallback(w * cfg.N + pos, PostParams(cfg)) ]
    /\ UNCHANGED PipelineVars

\* one frequency bin: the spectra R and I the forward transforms compute, as
\* stored by the two plans and multiplied by the correlation plan
SpectralProduct ==
    /\ \E R \in Complex, I \in Complex :
          cb' = [ kind |-> "product", R |-> R, I |-> I,
                  out |-> MultiplyValue(ReferencePostCallback(R),
                                        InputPlanOutput(I)) ]
    /\ UNCHANGED PipelineVars

\* the samples of a binary sequence
Samples == { -1, 1 }

\* the transform sizes whose roots of unity have integer parts
TransformSizes == { 1, 2, 4 }

CAdd(a, b) == [ x |-> a.x + b.x, y |-> a.y + b.y ]

\* exp(-2 pi i m / N) for the forward and exp(+2 pi i m / N) for the backward
\* direction, N in TransformSizes
Root(N, m, dir) ==
    LET q == ((4 \div N) * m) % 4
        w == CASE q = 0 -> [ x |-> 1, y |-> 0 ]
               [] q = 1 -> [ x |-> 0, y |-> 0 - 1 ]
               [] q = 2 -> [ x |-> 0 - 1, y |-> 0 ]
               [] q = 3 -> [ x |-> 0, y |-> 1 ]
    IN IF dir = "forward" THEN w ELSE Conj(w)

RECURSIVE CSum(_, _)
CSum(f, n) == IF n = 0 THEN [ x |-> 0, y |-> 0 ] ELSE CAdd(CSum(f, n - 1), f[n - 1])

\* clfftEnqueueTransform of one window of N elements.  The scale of the
\* backward direction, 1/N, is a positive factor common to every output and
\* is left out, so that the values stay integers.
Transform(v, N, dir) ==
    [ f \in 0..(N - 1) |->
        CSum([ n \in 0..(N - 1) |-> CMul(v[n], Root(N, f * n, dir)) ], N) ]

\* the square of length(fftoutput)
Magnitude2(v) == v.x * v.x + v.y * v.y

\* What the reference pre-callback finds at element idx of reference_data:
\* the buffer holds the N uploaded samples; an index beyond them is outside
\* the buffer and reads whatever the device memory holds there.
ReferenceMemory(ref, oob, N, idx) == IF idx < N THEN ref[idx] ELSE oob[idx]

\* Steps 1 to 3 for one input signal: the value the post-callback stores at
\* position pos of the window of each shift.  The scale factor of the
\* pre-callbacks is a positive factor common to every sample and is left out.
PipelinePeaks(ref, oob, input, c, pos) ==
    [ h \in 0..(c.num_shifts - 1) |->
        LET row == [ n \in 0..(c.N - 1) |->
                       [ x |-> ReferenceMemory(ref, oob, c.N,
                                   ReferencePreCallback_Index(h * c.N + n, c.N)),
                         y |-> 0 ] ]
            R == Transform(row, c.N, "forward")
            I == Transform([ n \in 0..(c.N - 1) |-> [ x |-> input[n], y |-> 0 ] ],
                           c.N, "forward")
            prod == [ f \in 0..(c.N - 1) |->
                        MultiplyValue(ReferencePostCallback(R[f]),
                                      InputPlanOutput(I[f])) ]
        IN Magnitude2(Transform(prod, c.N, "backward")[pos]) ]

\* the reference sequence advanced cyclically by k samples
CyclicShift(ref, N, k) == [ n \in 0..(N - 1) |-> ref[(n + k) % N] ]

\* the three steps run on a reference sequence and on an input signal that
\* is the reference shifted by k
CorrelateShifted ==
    /\ cfg.N \in TransformSizes
    /\ \E ref \in [ 0..(cfg.N - 1) -> Samples ],
          oob \in [ cfg.N..(cfg.num_shifts * cfg.N - 1) -> Samples ],
          k \in 0..(cfg.num_shifts - 1) :
          /\ k < cfg.N
          /\ cb' = [ kind |-> "peaks", ref |-> ref, k |-> k,
                     peaks |-> PipelinePeaks(ref, oob, CyclicShift(ref, cfg.N, k),
                                             cfg, 0) ]
    /\ UNCHANGED PipelineVars

\* The inverse transform of step 3 over its whole batch: for every element
\* of the peaks array, the output elements whose post-callback stored their
\* magnitude in it.
PeakWriters(c) ==
    [ i \in 0..(c.num_signals * c.num_shifts * c.n_kg - 1) |->
        { e \in 0..(c.num_signals * c.num_shifts * c.N - 1) :
            /\ PeakPostCallback(e, PostParams(c)).written
            /\ PeakPostCallback(e, PostParams(c)).index = i } ]

\* step 3 has run: the correlation plan has transformed every window
CorrelationRun ==
    /\ cb' = [ kind |-> "run", writers |-> PeakWriters(cfg) ]
    /\ UNCHANGED PipelineVars

\* the longest host array a client passes to a step
LenMax == 6

\* clEnqueueWriteBuffer, clEnqueueCopyBuffer and clEnqueueReadBuffer report
\* CL_INVALID_VALUE, and enqueue nothing, when the region leaves the buffer
RegionInBuffer(c, a) == a.off + a.size <= AllocSize(c, a.buf)

\* what a step does with its arguments: whether it got as far as its
\* transform, and the transfers it has enqueued
Invocation(ok, acc) == [ ok |-> ok, acc |-> acc ]

\* step1_reference_signals: N and num_shifts against fft_size_ and num_shifts_
Step1ArgsAccepted_SizeOnly(len, num_shifts, c) == len = c.N

Step1ArgsAccepted(len, num_shifts, c) ==
    ~(len # c.N) /\ ~(num_shifts # c.num_shifts)

\* step1_ProcessReferenceSignals(reference_signal, num_shifts), len being
\* reference_signal.size()
Step1Invocation(len, num_shifts, c) ==
    LET upload == Access("reference_data", "w", 0, len * SizeofInt32)
    IN IF ~Step1ArgsAccepted(len, num_shifts, c) THEN Invocation(FALSE, {})
       ELSE IF ~RegionInBuffer(c, upload) THEN Invocation(FALSE, {})
       ELSE Invocation(TRUE, { upload })

\* step2_ProcessInputSignals(input_signals, num_signals), len being
\* input_signals.size(): N is input_signals.size() / num_signals
Step2Invocation(len, num_signals, c) ==
    LET N == len \div num_signals
        upload == Access("input_data", "w", 0, num_signals * N * SizeofInt32)
    IN IF ~RegionInBuffer(c, upload) THEN Invocation(FALSE, {})
       ELSE Invocation(TRUE, { upload })

\* step3_ComputeCorrelation(num_signals, num_shifts, n_kg): N is fft_size_
Step3Invocation(num_signals, num_shifts, n_kg, c) ==
    LET params_size == Step3_ParamsSize
        reference_size == num_shifts * c.N * SizeofFloat2
        input_size == num_signals * c.N * SizeofFloat2
        peaks_size == num_signals * num_shifts * n_kg * SizeofFloat
        copy_ref == { Access("reference_fft", "r", 0, reference_size),
                      Access("pre_callback_userdata_correlation", "w",
                             params_size, reference_size) }
        copy_input == { Access("input_fft", "r", 0, input_size),
                        Access("pre_callback_userdata_correlation", "w",
                               params_size + reference_size, input_size) }
        download == { Access("post_callback_userdata", "r",
                             Step3_PostParamsSize, peaks_size) }
    IN IF \E a \in copy_ref : ~RegionInBuffer(c, a)
       THEN Invocation(FALSE, {})
       ELSE IF \E a \in copy_input : ~RegionInBuffer(c, a)
       THEN Invocation(FALSE, copy_ref)
       ELSE IF \E a \in download : ~RegionInBuffer(c, a)
       THEN Invocation(FALSE, copy_ref \cup copy_input)
       ELSE Invocation(TRUE, copy_ref \cup copy_input \cup download)

\* a client invokes a step of an initialized backend with arguments of its
\* choice
StepInvocation ==
    /\ \/ \E len \in 1..LenMax, num_shifts \in 1..ShiftsMax :
             cb' = [ kind |-> "invocation", step |-> 1, len |-> len,
                     num_shifts |-> num_shifts,
                     out |-> Step1Invocation(len, num_shifts, cfg) ]
       \/ \E len \in 1..LenMax, num_signals \in 1..SignalsMax :
             /\ len >= num_signals
             /\ cb' = [ kind |-> "invocation", step |-> 2, len |-> len,
                        num_signals |-> num_signals,
                        out |-> Step2Invocation(len, num_signals, cfg) ]
       \/ \E num_signals \in 1..SignalsMax, num_shifts \in 1..ShiftsMax,
             n_kg \in 1..KgMax :
             cb' = [ kind |-> "invocation", step |-> 3,
                     num_signals |-> num_signals, num_shifts |-> num_shifts,
                     n_kg |-> n_kg,
                     out |-> Step3Invocation(num_signals, num_shifts, n_kg,
                                             cfg) ]
    /\ UNCHANGED PipelineVars

----------------------------------------------------------------------------
(* Construction: Configuration, backend configuration, pipeline *)

\* INT_MAX, the largest value of the int members of the configuration
IntMax == 2147483647

\* the values a client can pass for each parameter
FFTSizes == { 0, 2, 3 }

ShiftCounts == { 0, 1, IntMax }

SignalCounts == { -1, 2 }

OutputPoints == { 0, 1 }

ConfigValues ==
    [ N : FFTSizes, num_shifts : ShiftCounts, num_signals : SignalCounts,
      n_kg : OutputPoints, scale_factor : ScaleFactors ]

\* Configuration::Configuration() and the initial members of the backend
DefaultConfig ==
    [ N |-> 2, num_shifts |-> 1, num_signals |-> 2, n_kg |-> 1,
      scale_factor |-> 1 ]

ConfigFields == { "N", "num_shifts", "num_signals", "n_kg", "scale_factor" }

Abs(a) == IF a < 0 THEN 0 - a ELSE a

\* the product of two int values is representable in int
IntMulFits(a, b) == a = 0 \/ b = 0 \/ Abs(a) <= IntMax \div Abs(b)

\* num_signals * num_shifts ( * n_kg ), the leading factors of the sizes of
\* the correlation buffers and of the peaks, are evaluated in int
SizesFit(c) ==
    /\ IntMulFits(c.num_signals, c.num_shifts)
    /\ IntMulFits(c.num_signals * c.num_shifts, c.n_kg)

SetupVars == << flags, timings, snapshot, initialized_, fft_handler_, context_,
                queue_, ctx, obj, data, ops, frame, relLog, faults, cb, run >>

\* Configuration::Configuration(fft_size, ...): throws when validate() fails
ConfigurationCtor ==
    /\ pc = "setup"
    /\ \E c \in ConfigValues :
          IF Validate(c)
          THEN /\ cfg' = c
               /\ call' = NewCall("Configuration", "ok", FALSE)
          ELSE /\ cfg' = cfg
               /\ call' = NewCall("Configuration", "throw", FALSE)
    /\ UNCHANGED << SetupVars, pc, backend_cfg >>

\* Configuration::setFFTSize, setNumShifts, setNumSignals,
\* setNumOutputPoints, setScaleFactor: the member is assigned
ConfigurationSet ==
    /\ pc = "setup"
    /\ \E c \in ConfigValues :
          /\ \E f \in ConfigFields :
                /\ c[f] # cfg[f]
                /\ \A g \in ConfigFields \ { f } : c[g] = cfg[g]
          /\ cfg' = c
          /\ call' = NewCall("Configuration::set", "void", FALSE)
    /\ UNCHANGED << SetupVars, pc, backend_cfg >>

\* a setConfiguration that assigns the members whatever the state
SetConfiguration_Unguarded ==
    /\ pc \in { "setup", "idle" }
    /\ \E c \in ConfigValues :
          /\ backend_cfg' = c
          /\ call' = NewCall("setConfiguration", "void", TRUE)
    /\ UNCHANGED << SetupVars, pc, cfg >>

\* OpenCLFFTBackend::setConfiguration
SetConfiguration ==
    /\ pc \in { "setup", "idle" }
    /\ \E c \in ConfigValues :
          IF initialized_
          THEN /\ backend_cfg' = backend_cfg
               /\ call' = NewCall("setConfiguration", "throw", TRUE)
          ELSE /\ backend_cfg' = c
               /\ call' = NewCall("setConfiguration", "void", TRUE)
    /\ UNCHANGED << SetupVars, pc, cfg >>

\* CorrelationPipeline::CorrelationPipeline(backend, config)
PipelineCtor ==
    /\ pc = "setup"
    /\ IF Validate(cfg)
       THEN /\ pc' = "idle"
            /\ call' = NewCall("CorrelationPipeline", "ok", FALSE)
       ELSE /\ pc' = pc
            /\ call' = NewCall("CorrelationPipeline", "throw", FALSE)
    /\ UNCHANGED << SetupVars, cfg, backend_cfg >>

----------------------------------------------------------------------------
(* The running-maximum post-callback of create_fft_plan_1d_with_postcallback *)

MagMax == 2

RunFrame == << flags, timings, snapshot, initialized_, fft_handler_, context_,
              queue_, ctx, obj, data, ops, pc, frame, call, relLog, faults,
              cfg, cb, backend_cfg >>

\* magnitudes of the output elements of one window
Magnitudes == 0..MagMax

RunningMaxConfigs ==
    { [ N |-> n, num_shifts |-> 1, num_signals |-> 1, n_kg |-> 1,
        scale_factor |-> 1 ] : n \in { 2, 4 } }

\* An inverse transform starts on one window: its output elements have the
\* magnitudes mag, and the slot of the window holds what the peaks buffer
\* held before.  One work-item per output element calls the post-callback.
RunningMaxStart ==
    /\ run.st = "none"
    /\ \E mag \in [ 0..(cfg.N - 1) -> Magnitudes ], before \in Magnitudes :
          run' = [ st |-> "running", mag |-> mag, slot |-> before,
                   wi |-> [ pos \in 0..(cfg.N - 1) |->
                              [ pc |-> "ready", seen |-> 0 ] ] ]
    /\ UNCHANGED RunFrame

\* The post-callback of element pos up to its access to the slot: it
\* returns for pos >= search_range, stores the magnitude for pos = 0, and
\* otherwise reads the slot for the comparison.
WorkItemEnter ==
    /\ run.st = "running"
    /\ \E pos \in 0..(cfg.N - 1) :
          /\ run.wi[pos].pc = "ready"
          /\ run' =
                IF pos >= PostParams(cfg).search_range
                THEN [run EXCEPT !.wi[pos].pc = "done"]
                ELSE IF pos = 0
                THEN [run EXCEPT !.slot = run.mag[0], !.wi[pos].pc = "done"]
                ELSE [run EXCEPT !.wi[pos] = [ pc |-> "read", seen |-> run.slot ]]
    /\ UNCHANGED RunFrame

\* if (magnitude > peaks_output[output_idx]) peaks_output[output_idx] = magnitude
WorkItemStore ==
    /\ run.st = "running"
    /\ \E pos \in 0..(cfg.N - 1) :
          /\ run.wi[pos].pc = "read"
          /\ run' =
                IF run.mag[pos] > run.wi[pos].seen
                THEN [run EXCEPT !.slot = run.mag[pos], !.wi[pos].pc = "done"]
                ELSE [run EXCEPT !.wi[pos].pc = "done"]
    /\ UNCHANGED RunFrame

\* the transform completes when every work-item has returned
RunningMaxComplete ==
    /\ run.st = "running"
    /\ \A pos \in 0..(cfg.N - 1) : run.wi[pos].pc = "done"
    /\ run' = [run EXCEPT !.st = "done"]
    /\ UNCHANGED RunFrame

----------------------------------------------------------------------------
(* Conversion of the reference signal: GPU kernel and CPU routine *)

\* Numbers beyond the range of the model's integers are kept as two digits
\* in base 2^16; an unsigned int of the kernel has 32 bits.
HalfWord == 65536

Wide(n) == [ hi |-> n \div HalfWord, lo |-> n % HalfWord ]

WideAdd(x, y) ==
    [ hi |-> x.hi + y.hi + (x.lo + y.lo) \div HalfWord,
      lo |-> (x.lo + y.lo) % HalfWord ]

\* x * n, by doubling
RECURSIVE WideMul(_, _)
WideMul(x, n) ==
    IF n = 0 THEN Wide(0)
    ELSE LET h == WideMul(x, n \div 2)
             d == WideAdd(h, h)
         IN IF n % 2 = 1 THEN WideAdd(d, x) ELSE d

WideLess(x, y) == x.hi < y.hi \/ (x.hi = y.hi /\ x.lo < y.lo)

\* conversion to unsigned int
ToUint(x) == [ hi |-> x.hi % HalfWord, lo |-> x.lo ]

\* the sizes, shift counts and scale factors a conversion is called with
ConvertSizes == { 1, 2, 3, 65536 }

ConvertShifts == { 1, 2, 3, 65536 }

ConvertScales == { 1, 2 }

\* the shifts and positions examined
ElementMax == 2

\* convert_reference_signals_cpu: iteration (shift, i) of the loops
CpuConvertElement(input, N, shift, i, scale) ==
    LET input_idx == (i + shift) % N
        output_idx == shift * N + i
    IN [ written |-> TRUE, idx |-> output_idx, src |-> input_idx,
         val |-> input[input_idx] * scale ]

\* apply_cyclic_shifts: the work-item with global id g
GpuConvertElement(input, N, num_shifts, g, scale) ==
    LET gid == g
        total_output_size == ToUint(WideMul(Wide(N), num_shifts))
        shift == gid \div N
        position == gid % N
        input_idx == (position + shift) % N
    IN IF ~WideLess(Wide(gid), total_output_size)
       THEN [ written |-> FALSE, idx |-> gid, src |-> 0, val |-> 0 ]
       ELSE [ written |-> TRUE, idx |-> gid, src |-> input_idx,
              val |-> input[input_idx] * scale ]

\* The two routines convert one input array, of which the leading samples
\* are drawn; the element of iteration (shift, i) of the CPU loops and the
\* work-item of the kernel with the global id of that element are compared.
ConvertElement ==
    /\ cb = NoCallback
    /\ \E N \in ConvertSizes, num_shifts \in ConvertShifts,
          scale \in ConvertScales, input \in [ 0..(2 * ElementMax) -> Samples ],
          shift \in 0..ElementMax, i \in 0..ElementMax :
          /\ shift < num_shifts /\ i < N
          /\ LET cpu == CpuConvertElement(input, N, shift, i, scale)
             IN cb' = [ kind |-> "convert", N |-> N, num_shifts |-> num_shifts,
                        scale |-> scale, input |-> input,
                        shift |-> shift, i |-> i, cpu |-> cpu,
                        gpu |-> GpuConvertElement(input, N, num_shifts,
                                                  cpu.idx, scale) ]
    /\ UNCHANGED PipelineVars

----------------------------------------------------------------------------
(* An FFTHandler used directly by a client *)

HandlerFrame == << flags, timings, snapshot, initialized_, fft_handler_,
                   context_, queue_, data, ops, pc, frame, cfg, cb,
                   backend_cfg, run >>

\* FFTHandler::initialize called on the handler, with call number k
\* reporting failure (k = 0: none)
FFTHandlerInitialize ==
    /\ pc = "idle"
    /\ \E k \in 0..NumStages :
          LET hi == HandlerInitialize(k, ctx, obj)
          IN /\ k > 0 => (faults < MaxFaults /\ ~ctx.initialized)
             /\ faults' = IF k > 0 THEN faults + 1 ELSE faults
             /\ ctx' = hi.c
             /\ obj' = hi.o
             /\ call' = NewCall("FFTHandler::initialize",
                                IF hi.threw THEN "throw" ELSE "void", TRUE)
    /\ UNCHANGED << HandlerFrame, relLog >>

\* FFTHandler::cleanup called on the handler
FFTHandlerCleanup ==
    /\ pc = "idle"
    /\ LET hc == HandlerCleanup(ctx, obj)
       IN /\ ctx' = hc.c
          /\ obj' = hc.o
          /\ relLog' = hc.log
          /\ call' = NewCall("FFTHandler::cleanup", "void", TRUE)
    /\ UNCHANGED << HandlerFrame, faults >>

----------------------------------------------------------------------------
(* CorrelationPipeline::executeFullPipeline *)

\* no executeFullPipeline is under way: none was called yet, the last one
\* returned false after a call that failed, or returned true after step 3
AtPipelineEntry ==
    /\ pc = "idle"
    /\ \/ call.op \in { "none", "cleanup" }
       \/ call.result = "false"
       \/ call.op = "executeStep3" /\ call.result = "true"

\* if (!initialize()) return false;
ExecuteFullPipeline_Initialize ==
    /\ AtPipelineEntry
    /\ Initialize

\* if (!executeStep1(reference_signal, config_->getNumShifts())) return false;
ExecuteFullPipeline_Step1 ==
    /\ call.op = "initialize" /\ call.result = "true"
    /\ ExecuteStep1

\* if (!executeStep2(input_signals, config_->getNumSignals())) return false;
ExecuteFullPipeline_Step2 ==
    /\ call.op = "executeStep1" /\ call.result = "true"
    /\ ExecuteStep2

\* if (!executeStep3(...)) return false;
ExecuteFullPipeline_Step3 ==
    /\ call.op = "executeStep2" /\ call.result = "true"
    /\ ExecuteStep3

\* cleanup() called between two calls of executeFullPipeline
CleanupBetweenPipelines ==
    /\ AtPipelineEntry
    /\ Cleanup

----------------------------------------------------------------------------
(* The system *)

\* the state after construction of the pipeline and its backend
Constructed ==
    /\ step1_completed_ = FALSE
    /\ step2_completed_ = FALSE
    /\ step3_completed_ = FALSE
    /\ timings = [k \in 1..3 |-> << >>]
    /\ snapshot = [k \in 1..3 |-> [ src |-> "none", evt |-> 0 ]]
    /\ initialized_ = FALSE
    /\ fft_handler_ = FALSE
    /\ context_ = FALSE
    /\ queue_ = FALSE
    /\ ctx = FreshCtx
    /\ obj = [n \in ObjNames |-> "none"]
    /\ data = Uninit
    /\ ops = << >>
    /\ pc = "idle"
    /\ frame = EmptyFrame
    /\ call = [ op |-> "none", result |-> "none", backend |-> FALSE ]
    /\ relLog = << >>
    /\ cb = NoCallback
    /\ run = NoRun

Init ==
    /\ Constructed
    /\ faults = 0
    /\ cfg \in PipelineConfigs
    /\ backend_cfg = cfg

Next ==
    \/ Initialize
    \/ Cleanup
    \/ Destructor
    \/ ExecuteStep1
    \/ Step1_AfterUpload
    \/ Step1_AfterFFT
    \/ Step1_AfterRead
    \/ ExecuteStep2
    \/ Step2_AfterUpload
    \/ Step2_AfterFFT
    \/ Step2_AfterRead
    \/ ExecuteStep3
    \/ Step3_AfterCopy
    \/ Step3_AfterIFFT
    \/ Step3_AfterDownload
    \/ Step3_AfterRead
    \/ GetCorrelationPeaks
    \/ GetReferenceFFT
    \/ GetInputFFT
    \/ DeviceStart
    \/ DeviceAbort
    \/ DeviceComplete
    \/ DeviceFail

Spec == Init /\ [][Next]_vars

TypeOK ==
    /\ flags \in BOOLEAN \X BOOLEAN \X BOOLEAN
    /\ obj \in [ObjNames -> { "none", "alive", "released", "released2" }]
    /\ data \in [DataBufs -> { "uninit", "valid", "garbage" }]
    /\ faults \in 0..MaxFaults
    /\ pc \in { "setup", "idle", "destroyed", "crashed",
                "s1_upload", "s1_fft", "s1_read",
                "s2_upload", "s2_fft", "s2_read",
                "s3_copy", "s3_ifft", "s3_download", "s3_read" }

\* The behaviours in which no API call and no device command fails.
InitNoFault ==
    /\ Constructed
    /\ faults = MaxFaults
    /\ cfg \in PipelineConfigs
    /\ backend_cfg = cfg

NextNoFault ==
    \/ Initialize
    \/ Cleanup
    \/ Destructor
    \/ ExecuteStep1
    \/ Step1_AfterUpload
    \/ Step1_AfterFFT
    \/ Step1_AfterRead
    \/ ExecuteStep2
    \/ Step2_AfterUpload
    \/ Step2_AfterFFT
    \/ Step2_AfterRead
    \/ ExecuteStep3
    \/ Step3_AfterCopy
    \/ Step3_AfterIFFT
    \/ Step3_AfterDownload
    \/ Step3_AfterRead
    \/ GetCorrelationPeaks
    \/ GetReferenceFFT
    \/ GetInputFFT
    \/ DeviceStart
    \/ DeviceComplete

SpecNoFault == InitNoFault /\ [][NextNoFault]_vars

\* the host resumes after one of its waits
HostResumes ==
    \/ Step1_AfterUpload
    \/ Step1_AfterFFT
    \/ Step1_AfterRead
    \/ Step2_AfterUpload
    \/ Step2_AfterFFT
    \/ Step2_AfterRead
    \/ Step3_AfterCopy
    \/ Step3_AfterIFFT
    \/ Step3_AfterDownload
    \/ Step3_AfterRead

\* The behaviours without failures in which the device goes on executing
\* the commands it was given and the host thread goes on running.
SpecProgress ==
    /\ InitNoFault
    /\ [][NextNoFault]_vars
    /\ WF_vars(DeviceStart)
    /\ WF_vars(DeviceComplete)
    /\ WF_vars(HostResumes)

\* The layout arithmetic and the callbacks, over every configuration.
InitLayout ==
    /\ Constructed
    /\ faults = 0
    /\ cfg \in Configs
    /\ backend_cfg = cfg

NextLayout ==
    \/ HostTransfer
    \/ ReferenceElement
    \/ CorrelationElement
    \/ SpectralProduct
    \/ CorrelateShifted
    \/ StepInvocation
    \/ CorrelationRun

SpecLayout == InitLayout /\ [][NextLayout]_vars

\* The construction of the configuration, of the backend and of the
\* pipeline, followed by initialize.
InitConfig ==
    /\ step1_completed_ = FALSE
    /\ step2_completed_ = FALSE
    /\ step3_completed_ = FALSE
    /\ timings = [k \in 1..3 |-> << >>]
    /\ snapshot = [k \in 1..3 |-> [ src |-> "none", evt |-> 0 ]]
    /\ initialized_ = FALSE
    /\ fft_handler_ = FALSE
    /\ context_ = FALSE
    /\ queue_ = FALSE
    /\ ctx = FreshCtx
    /\ obj = [n \in ObjNames |-> "none"]
    /\ data = Uninit
    /\ ops = << >>
    /\ pc = "setup"
    /\ frame = EmptyFrame
    /\ call = [ op |-> "none", result |-> "none", backend |-> FALSE ]
    /\ relLog = << >>
    /\ cb = NoCallback
    /\ run = NoRun
    /\ faults = 0
    /\ cfg = DefaultConfig
    /\ backend_cfg = DefaultConfig

NextConfig ==
    \/ ConfigurationCtor
    \/ ConfigurationSet
    \/ SetConfiguration
    \/ PipelineCtor
    \/ Initialize

SpecConfig == InitConfig /\ [][NextConfig]_vars

\* One inverse transform with the running-maximum post-callback.
InitRunningMax ==
    /\ Constructed
    /\ faults = 0
    /\ cfg \in RunningMaxConfigs
    /\ backend_cfg = cfg

NextRunningMax ==
    \/ RunningMaxStart
    \/ WorkItemEnter
    \/ WorkItemStore
    \/ RunningMaxComplete

SpecRunningMax == InitRunningMax /\ [][NextRunningMax]_vars

\* An FFTHandler constructed on a context and a queue of its client.
InitHandler ==
    /\ step1_completed_ = FALSE
    /\ step2_completed_ = FALSE
    /\ step3_completed_ = FALSE
    /\ timings = [k \in 1..3 |-> << >>]
    /\ snapshot = [k \in 1..3 |-> [ src |-> "none", evt |-> 0 ]]
    /\ initialized_ = FALSE
    /\ fft_handler_ = FALSE
    /\ context_ = FALSE
    /\ queue_ = FALSE
    /\ ctx = FreshCtx
    /\ obj = [n \in ObjNames |->
                IF n \in { "context", "queue" } THEN "alive" ELSE "none"]
    /\ data = Uninit
    /\ ops = << >>
    /\ pc = "idle"
    /\ frame = EmptyFrame
    /\ call = [ op |-> "none", result |-> "none", backend |-> FALSE ]
    /\ relLog = << >>
    /\ cb = NoCallback
    /\ run = NoRun
    /\ faults = 0
    /\ cfg \in PipelineConfigs
    /\ backend_cfg = cfg

NextHandler ==
    \/ FFTHandlerInitialize
    \/ FFTHandlerCleanup

SpecHandler == InitHandler /\ [][NextHandler]_vars

\* A client that runs the pipeline through executeFullPipeline only.
NextFullPipeline ==
    \/ ExecuteFullPipeline_Initialize
    \/ ExecuteFullPipeline_Step1
    \/ ExecuteFullPipeline_Step2
    \/ ExecuteFullPipeline_Step3
    \/ CleanupBetweenPipelines
    \/ Step1_AfterUpload
    \/ Step1_AfterFFT
    \/ Step1_AfterRead
    \/ Step2_AfterUpload
    \/ Step2_AfterFFT
    \/ Step2_AfterRead
    \/ Step3_AfterCopy
    \/ Step3_AfterIFFT
    \/ Step3_AfterDownload
    \/ Step3_AfterRead
    \/ DeviceStart
    \/ DeviceAbort
    \/ DeviceComplete
    \/ DeviceFail

SpecFullPipeline == Init /\ [][NextFullPipeline]_vars

\* The conversion routines, which are independent of the pipeline.
InitConvert ==
    /\ Constructed
    /\ faults = 0
    /\ cfg = DefaultConfig
    /\ backend_cfg = cfg

NextConvert == ConvertElement

SpecConvert == InitConvert /\ [][NextConvert]_vars

----------------------------------------------------------------------------
(* Sequencing of the steps *)

\* C1: executeStep2 while step 1 is not completed, and executeStep3 while
\* step 1 or step 2 is not completed, throws before any backend method is
\* invoked: no command is enqueued, no device object and no completion flag
\* changes.
C1_SequencingError ==
    [][ /\ (ExecuteStep2 /\ ~step1_completed_) =>
              /\ call'.op = "executeStep2" /\ call'.result = "throw"
              /\ ~call'.backend
              /\ UNCHANGED << flags, ops, obj, data, timings, snapshot >>
        /\ (ExecuteStep3 /\ ~(step1_completed_ /\ step2_completed_)) =>
              /\ call'.op = "executeStep3" /\ call'.result = "throw"
              /\ ~call'.backend
              /\ UNCHANGED << flags, ops, obj, data, timings, snapshot >>
      ]_vars

\* executeStep3 has thrown with step 1 completed and step 2 not
C1_Witness ==
    /\ call.op = "executeStep3" /\ call.result = "throw"
    /\ step1_completed_ /\ ~step2_completed_
    /\ initialized_

\* C2: a step 3 that has run the correlation and returned success computed
\* it from spectra that step 1 and step 2 wrote into the buffers of the
\* current initialization.
C2_NoStaleCorrelation ==
    (call.op = "executeStep3" /\ call.result = "true" /\ call.backend) =>
        /\ data["userdata_reference"] = "valid"
        /\ data["userdata_input"] = "valid"

\* C3: executeStepK with step K completed returns true without invoking the
\* backend and leaves timings, snapshot and flags as they are.
C3_CompletedStepIsNoOp ==
    [][ /\ (ExecuteStep1 /\ step1_completed_) =>
              /\ call'.result = "true" /\ ~call'.backend
              /\ UNCHANGED << flags, timings, snapshot, ops, obj, data >>
        /\ (ExecuteStep2 /\ step2_completed_) =>
              /\ call'.result = "true" /\ ~call'.backend
              /\ UNCHANGED << flags, timings, snapshot, ops, obj, data >>
        /\ (ExecuteStep3 /\ step3_completed_) =>
              /\ call'.result = "true" /\ ~call'.backend
              /\ UNCHANGED << flags, timings, snapshot, ops, obj, data >>
      ]_vars

\* a completed step 3 has been invoked again on an initialized backend
C3_Witness ==
    /\ call.op = "executeStep3" /\ call.result = "true" /\ ~call.backend
    /\ step3_completed_ /\ initialized_

----------------------------------------------------------------------------
(* Teardown *)

\* C4: from any state cleanup() returns normally and leaves the backend
\* uninitialized with every handle null, and a cleanup() that directly
\* follows a cleanup() releases nothing.
C4_CleanupValidFromAnyState ==
    [][ Cleanup =>
          /\ call'.result = "void"
          /\ ~initialized_' /\ ~fft_handler_' /\ ~queue_' /\ ~context_'
          /\ (call.op = "cleanup" => relLog' = << >>)
      ]_vars

\* C5: no device handle is released more than once.
C5_NoDoubleRelease ==
    \A n \in ObjNames : obj[n] # "released2"

\* C6: once cleanup or the destructor has completed, every buffer and every
\* plan that initialize created has been released.
C6_AllReleasedAfterCleanup ==
    (call.op \in { "cleanup", "destructor" } /\ call.result = "void") =>
        \A n \in Buffers \cup Plans : obj[n] # "alive"

Rank(n) ==
    CASE n \in Plans -> 1
      [] n \in Buffers -> 2
      [] n = "queue" -> 3
      [] n = "context" -> 4

----------------------------------------------------------------------------
(* Ordering of the device commands *)

Started(i) == ops[i].st \in { "running", "done" }

\* command i directly follows a command of kind k, waits for it, and has
\* not started before it completed
GatedOn(i, k) ==
    /\ i > 1
    /\ ops[i - 1].kind = k
    /\ (i - 1) \in ops[i].waits
    /\ Started(i) => ops[i - 1].st = "done"
    /\ Finished(i) => Finished(i - 1)

\* C8: in step 1 and step 2 the forward transform has the upload's event in
\* its wait list and does not start before the upload has completed.
C8_TransformGatedOnUpload ==
    \A i \in 1..Len(ops) :
        /\ ops[i].kind = "s1_fft" => GatedOn(i, "s1_upload")
        /\ ops[i].kind = "s2_fft" => GatedOn(i, "s2_upload")

\* the transform of step 2 is executing
C8_Witness ==
    \E i \in 1..Len(ops) : ops[i].kind = "s2_fft" /\ ops[i].st = "running"

\* C9: in step 3 the copy of the input spectra waits for the copy of the
\* reference spectra, the inverse transform for the copy of the input
\* spectra, the read of the peaks for the inverse transform; none starts
\* before its predecessor has completed.
C9_Step3Chain ==
    \A i \in 1..Len(ops) :
        /\ ops[i].kind = "s3_copy_input" => GatedOn(i, "s3_copy_ref")
        /\ ops[i].kind = "s3_ifft" => GatedOn(i, "s3_copy_input")
        /\ ops[i].kind = "s3_download" => GatedOn(i, "s3_ifft")

\* the read of the peaks is executing
C9_Witness ==
    \E i \in 1..Len(ops) : ops[i].kind = "s3_download" /\ ops[i].st = "running"

\* C10: a command of a later step has not started while a command of an
\* earlier step is unfinished.
C10_StepsSequential ==
    \A i, j \in 1..Len(ops) :
        (ops[j].step < ops[i].step /\ ops[i].st # "queued") => Finished(j)

\* the first copy of step 3 is executing
C10_Witness ==
    \E i \in 1..Len(ops) : ops[i].kind = "s3_copy_ref" /\ ops[i].st = "running"

----------------------------------------------------------------------------
(* Host waits and buffer accesses *)

\* the command that depends on a command of the given kind
DependentKind(kind) ==
    CASE kind = "s1_upload" -> "s1_fft"
      [] kind = "s2_upload" -> "s2_fft"
      [] kind = "s3_copy_input" -> "s3_ifft"
      [] kind = "s3_ifft" -> "s3_download"

\* C11: while the host waits for the completion of an upload, of the copies
\* or of the inverse transform, the command that depends on it has already
\* been enqueued.
C11_NoHostWaitBeforeDependentEnqueued ==
    pc \in { "s1_upload", "s2_upload", "s3_copy", "s3_ifft" } =>
        \E j \in (frame.evt + 1)..Len(ops) :
            ops[j].kind = DependentKind(ops[frame.evt].kind)

Overlap(a, b) ==
    /\ a.buf = b.buf
    /\ a.off < b.off + b.size
    /\ b.off < a.off + a.size

Conflict(a, b) == Overlap(a, b) /\ (a.mode = "w" \/ b.mode = "w")

Writes(kind) == { a \in OpAccesses(kind, cfg) : a.mode = "w" }

\* C12: two commands that are executing never access overlapping bytes of a
\* buffer when one of them writes; the two copies of step 3 write disjoint
\* byte ranges, and both have completed when the inverse transform starts.
C12_NoBufferRace ==
    /\ \A i, j \in 1..Len(ops) :
          (i # j /\ ops[i].st = "running" /\ ops[j].st = "running") =>
              \A a \in OpAccesses(ops[i].kind, cfg),
                 b \in OpAccesses(ops[j].kind, cfg) : ~Conflict(a, b)
    /\ \A i, j \in 1..Len(ops) :
          (ops[i].kind = "s3_copy_ref" /\ ops[j].kind = "s3_copy_input") =>
              \A a \in Writes(ops[i].kind), b \in Writes(ops[j].kind) :
                  ~Overlap(a, b)
    /\ \A i \in 1..Len(ops) :
          (ops[i].kind = "s3_ifft" /\ Started(i)) =>
              /\ i > 2
              /\ ops[i - 2].kind = "s3_copy_ref" /\ ops[i - 2].st = "done"
              /\ ops[i - 1].kind = "s3_copy_input" /\ ops[i - 1].st = "done"

\* the inverse transform is executing in a pipeline with several shifts
C12_Witness ==
    /\ cfg.num_shifts > 1
    /\ \E i \in 1..Len(ops) : ops[i].kind = "s3_ifft" /\ ops[i].st = "running"

\* C13: the read of the peaks in step 3 and the read of getCorrelationPeaks
\* start after the inverse transform enqueued before them has completed, and
\* a getCorrelationPeaks that returns success finds peaks that an inverse
\* transform has written since initialize.
C13_PeaksReadAfterIFFT ==
    /\ \A i \in 1..Len(ops) :
          (ops[i].kind = "s3_download" /\ Started(i)) =>
              i > 1 /\ ops[i - 1].kind = "s3_ifft" /\ ops[i - 1].st = "done"
    /\ \A i \in 1..Len(ops) :
          (ops[i].kind = "s3_read" /\ Started(i)) =>
              i > 2 /\ ops[i - 2].kind = "s3_ifft" /\ ops[i - 2].st = "done"
    /\ (call.op = "getCorrelationPeaks" /\ call.result = "true") =>
          data["peaks"] # "uninit"

----------------------------------------------------------------------------
(* Layout shared by the host and the callbacks *)

\* C14: the complex-multiply pre-callback reads the reference and the input
\* spectra at the offsets at which step 3 copies them into the userdata
\* buffer, and the peak post-callback writes the peaks at the offset at
\* which step 3 and getCorrelationPeaks read them.
C14_HostOffsetsMatchCallbacks ==
    cb.kind = "correlation" =>
        /\ cb.pre.reference_fft = CopyRefDstOffset(cfg)
        /\ cb.pre.input_fft = CopyInputDstOffset(cfg)
        /\ cb.post.peaks_output = Step3_PostParamsSize
        /\ cb.post.peaks_output = GetPeaks_PostParamsSize

\* a peak has been stored in a configuration with several shifts
C14_Witness ==
    /\ cb.kind = "correlation" /\ cb.post.written
    /\ cfg.num_shifts > 1 /\ cfg.N > 1

\* C15: every transfer the host issues covers exactly one of the regions its
\* buffer was allocated with, and so ends within the buffer.
C15_TransfersMatchAllocation ==
    cb.kind = "transfer" =>
        \A a \in cb.acc :
            LET regions == AllocRegions(cfg)[a.buf]
            IN /\ a.off + a.size <= AllocSize(cfg, a.buf)
               /\ \E r \in 1..Len(regions) :
                     /\ a.off = Sum(SubSeq(regions, 1, r - 1))
                     /\ a.size = regions[r]

\* the read of the peaks in step 3, with several output points
C15_Witness ==
    cb.kind = "transfer" /\ cb.op = "s3_download" /\ cfg.n_kg > 1

\* C16: the product the correlation plan computes from the spectra R and I
\* carries exactly one conjugation: it is conj(R) * I or R * conj(I).
C16_ConjugationExactlyOnce ==
    cb.kind = "product" =>
        cb.out \in { CMul(Conj(cb.R), cb.I), CMul(cb.R, Conj(cb.I)) }

\* C17: for input element e = shift * N + pos the reference pre-callback
\* reads the raw sample (pos + shift) mod N.
C17_ReferenceCyclicShift ==
    cb.kind = "reference" =>
        cb.src = ((cb.e % cfg.N) + (cb.e \div cfg.N)) % cfg.N

\* C18: the pre-callback and the post-callback split a window index into the
\* same (signal, shift), and the peaks slot [signal][shift] that the
\* post-callback writes is computed from row shift of the reference spectra
\* and row signal of the input spectra, at one frequency index.
C18_SameWindowDecomposition ==
    cb.kind = "correlation" =>
        /\ cb.pre.signal_idx = cb.post.signal_idx
        /\ cb.pre.shift_idx = cb.post.shift_idx
        /\ cb.post.written =>
              LET slot == cb.post.index \div cfg.n_kg
                  signal == slot \div cfg.num_shifts
                  shift == slot % cfg.num_shifts
              IN /\ cb.pre.ref_byte = CopyRefDstOffset(cfg)
                        + SizeofFloat2 * (shift * cfg.N + cb.freq)
                 /\ cb.pre.inp_byte = CopyInputDstOffset(cfg)
                        + SizeofFloat2 * (signal * cfg.N + cb.freq)

\* a peak of the second signal and the second shift has been stored
C18_Witness ==
    /\ cb.kind = "correlation" /\ cb.post.written
    /\ cb.post.signal_idx = 1 /\ cb.post.shift_idx = 1
    /\ cfg.N > 1

Triples ==
    (0..(cfg.num_signals - 1)) \X (0..(cfg.num_shifts - 1))
        \X (0..(cfg.n_kg - 1))

\* C19: the peak of (signal s, shift h, point k) is element
\* (s * num_shifts + h) * n_kg + k of the array the host reads, and this
\* index maps the triples one-to-one onto 0 .. num_signals*num_shifts*n_kg-1.
C19_PeaksRowMajor ==
    /\ (cb.kind = "correlation" /\ cb.post.written) =>
          LET s == cb.window \div cfg.num_shifts
              h == cb.window % cfg.num_shifts
              k == cb.post.pos_in_window
          IN cb.post.byte = GetPeaks_PostParamsSize
                + SizeofFloat * ((s * cfg.num_shifts + h) * cfg.n_kg + k)
    /\ \A t, u \in Triples :
          t # u => PeakOutputIndex(t[1], t[2], t[3], PostParams(cfg))
                     # PeakOutputIndex(u[1], u[2], u[3], PostParams(cfg))
    /\ \A i \in 0..(cfg.num_signals * cfg.num_shifts * cfg.n_kg - 1) :
          \E t \in Triples :
              PeakOutputIndex(t[1], t[2], t[3], PostParams(cfg)) = i

\* a peak beyond the first point has been stored, signals and shifts differ
C19_Witness ==
    /\ cb.kind = "correlation" /\ cb.post.written
    /\ cb.post.pos_in_window > 0 /\ cb.window > 0
    /\ cfg.num_signals # cfg.num_shifts

\* C20: the post-callback stores no output element whose position in its
\* window is outside [0, search_range).
C20_NoWriteOutsideSearchRange ==
    (cb.kind = "correlation" /\ cb.post.written) =>
        cb.post.pos_in_window < PostParams(cfg).search_range

----------------------------------------------------------------------------
(* Results and configuration *)

\* C21: when the input signal is the reference shifted cyclically by k, the
\* peak at position 0 of shift k is the maximum of the peaks at position 0
\* over all shifts.
C21_PeakAtTrueShift ==
    cb.kind = "peaks" =>
        \A h \in 0..(cfg.num_shifts - 1) : cb.peaks[h] <= cb.peaks[cb.k]

\* C22: backend initialization only ever runs with valid values: a positive
\* transform size, at least one shift, one signal and one output point, and
\* a positive scale factor.
C22_InvalidValuesNeverReachBackend ==
    [][ (Initialize /\ ~initialized_) => Validate(backend_cfg) ]_vars

IsPowerOfTwo(n) == \E e \in 0..30 : n = 2 ^ e

\* C23: a pipeline is constructed only with a transform size that is a power
\* of two.
C23_SizeIsPowerOfTwo ==
    (call.op = "CorrelationPipeline" /\ call.result = "ok") =>
        IsPowerOfTwo(cfg.N)

\* C24: a pipeline is constructed only with a configuration whose buffer
\* sizes are computed without overflow.
C24_SizesDoNotOverflow ==
    (call.op = "CorrelationPipeline" /\ call.result = "ok") => SizesFit(cfg)

----------------------------------------------------------------------------
(* Failures *)

\* C25: a step is marked completed only when none of the waits of its run
\* reported a failure.
C25_FailureFailsStep ==
    \A k \in 1..3 :
        flags[k] => \A i \in 1..Len(timings[k]) : timings[k][i] # 0

StepOps == { "executeStep1", "executeStep2", "executeStep3" }

StepNames == << "executeStep1", "executeStep2", "executeStep3" >>

\* C26: from its invocation to its failure a step changes no completion
\* flag, and a cleanup that follows the failure of a step returns normally
\* and releases only handles whose objects are alive.
C26_FailedStepLeavesStateIntact ==
    [][ /\ (call'.op \in StepOps /\ call'.result \in { "pending", "false" }) =>
              UNCHANGED flags
        /\ (Cleanup /\ call.op \in StepOps /\ call.result = "false") =>
              /\ call'.result = "void"
              /\ \A i \in 1..Len(relLog') : obj[relLog'[i]] = "alive"
      ]_vars

\* C27: an initialize in which a call reports failure returns false and
\* leaves the backend uninitialized, and a step invoked on the backend while
\* it is uninitialized returns failure and enqueues nothing.
C27_FailedInitializeIsFatal ==
    [][ /\ (Initialize /\ faults' > faults) =>
              /\ call'.result = "false"
              /\ ~initialized_'
        /\ ((ExecuteStep1 \/ ExecuteStep2 \/ ExecuteStep3)
                /\ ~initialized_ /\ call'.backend) =>
              /\ call'.result = "false"
              /\ UNCHANGED << ops, obj, flags >>
      ]_vars

\* step 1 has been refused after an initialize that failed in FFTHandler,
\* behind the allocation of the first buffer
C27_Witness ==
    /\ call.op = "executeStep1" /\ call.result = "false" /\ call.backend
    /\ ~initialized_
    /\ obj["reference_data"] = "alive" /\ obj["context"] = "released"

\* C28: when a transform with the running-maximum post-callback has
\* completed, the slot of the window holds the largest magnitude among the
\* positions 0 .. search_range - 1 of the window.
C28_RunningMaxIsMaximum ==
    (run.st = "done" /\ PostParams(cfg).search_range > 0) =>
        /\ \A pos \in 0..(PostParams(cfg).search_range - 1) :
              run.mag[pos] <= run.slot
        /\ \E pos \in 0..(PostParams(cfg).search_range - 1) :
              run.mag[pos] = run.slot

\* C29: step 3 is completed only when step 2 is, step 2 only when step 1
\* is, and no step of the program clears a completion flag that is set.
C29_FlagsOrderedAndMonotone ==
    [][ /\ step3_completed_' => step2_completed_'
        /\ step2_completed_' => step1_completed_'
        /\ \A k \in 1..3 : flags[k] => flags'[k]
      ]_vars

\* a cleanup has run on a pipeline whose three steps are completed
C29_Witness ==
    /\ call.op = "cleanup" /\ call.result = "void"
    /\ step3_completed_

\* C30: while the backend is uninitialized, a step or a result getter
\* invoked on it returns failure, enqueues no command and releases no
\* handle.
C30_UninitializedBackendRefuses ==
    [][ ((ExecuteStep1 \/ ExecuteStep2 \/ ExecuteStep3 \/ GetReferenceFFT
             \/ GetInputFFT \/ GetCorrelationPeaks)
            /\ ~(initialized_ /\ fft_handler_) /\ call'.backend) =>
          /\ call'.result = "false"
          /\ UNCHANGED << ops, obj, data, relLog, flags, snapshot >>
      ]_vars

\* a getter has been refused after a cleanup that followed step 1
C30_Witness ==
    /\ call.op = "getReferenceFFT" /\ call.result = "false"
    /\ ~initialized_ /\ step1_completed_
    /\ obj["reference_fft"] = "released"

----------------------------------------------------------------------------
(* The FFTHandler and the arguments of the steps *)

\* C31: the flags initialized and is_cleaned_up of an FFTHandler are never
\* both true; when initialize returns normally, initialized is true and
\* is_cleaned_up is false, also after an earlier cleanup; and a cleanup of an
\* initialized handler releases every object that cleanup visits.
C31_FlagsExclusive ==
    [][ /\ ~(ctx'.initialized /\ ctx'.is_cleaned_up)
        /\ (FFTHandlerInitialize /\ call'.result = "void") =>
              ctx'.initialized /\ ~ctx'.is_cleaned_up
        /\ (FFTHandlerCleanup /\ ctx.initialized) =>
              \A f \in SeqSet(CleanupOrder) : obj'[f] # "alive"
      ]_vars

\* the transfers of steps 2 and 3 with the values given at initialization
ConfiguredTransfers ==
    UNION { HostAccesses(k, cfg) : k \in { "s2_upload", "s3_copy_ref",
                                           "s3_copy_input", "s3_download" } }

\* C32: an invocation of step 2 whose num_signals or input length, or of
\* step 3 whose num_signals, num_shifts or n_kg, differs from the values
\* given at initialization fails, and has enqueued no transfer of another
\* size than the configured one.
C32_StepsUseInitializedSizes ==
    (cb.kind = "invocation" /\ cb.step \in { 2, 3 }) =>
        LET differs ==
              IF cb.step = 2
              THEN cb.num_signals # cfg.num_signals
                      \/ cb.len # cfg.num_signals * cfg.N
              ELSE cb.num_signals # cfg.num_signals
                      \/ cb.num_shifts # cfg.num_shifts
                      \/ cb.n_kg # cfg.n_kg
        IN differs => /\ ~cb.out.ok
                      /\ cb.out.acc \subseteq ConfiguredTransfers

\* C33: step 1 invoked with a reference whose length differs from the
\* transform size given at initialization, or with a num_shifts that differs
\* from the one given at initialization, fails and has enqueued nothing.
C33_Step1RejectsMismatch ==
    (cb.kind = "invocation" /\ cb.step = 1
        /\ (cb.len # cfg.N \/ cb.num_shifts # cfg.num_shifts)) =>
        /\ ~cb.out.ok
        /\ cb.out.acc = {}

\* step 1 has been invoked with the configured length and another num_shifts
C33_Witness ==
    /\ cb.kind = "invocation" /\ cb.step = 1
    /\ cb.len = cfg.N /\ cb.num_shifts # cfg.num_shifts
    /\ ~cb.out.ok

----------------------------------------------------------------------------
(* The peaks and the accesses of the callbacks *)

\* C34: after step 3, for every signal s, shift h and point k below n_kg,
\* element [s][h][k] of the peaks has been stored by exactly one invocation
\* of the post-callback, the one of sample k of the inverse transform of
\* window s * num_shifts + h, whose magnitude it holds.
C34_PeaksAreFirstMagnitudes ==
    cb.kind = "run" =>
        \A t \in Triples :
            cb.writers[(t[1] * cfg.num_shifts + t[2]) * cfg.n_kg + t[3]]
                = { (t[1] * cfg.num_shifts + t[2]) * cfg.N + t[3] }

\* C35: the reference pre-callback reads at an index in [0, N) of the
\* reference signal buffer, the complex-multiply pre-callback reads its two
\* factors inside the reference and the input region of the userdata buffer,
\* and the peak post-callback writes inside the payload of the peaks buffer.
C35_CallbackAccessesInBounds ==
    /\ cb.kind = "reference" =>
          /\ 0 <= cb.src /\ cb.src < cfg.N
          /\ (cb.src + 1) * SizeofInt32 <= AllocSize(cfg, "reference_data")
    /\ cb.kind = "correlation" =>
          LET regions == AllocRegions(cfg)["pre_callback_userdata_correlation"]
              payload == AllocRegions(cfg)["post_callback_userdata"]
          IN /\ regions[1] <= cb.pre.ref_byte
             /\ cb.pre.ref_byte + SizeofFloat2 <= regions[1] + regions[2]
             /\ regions[1] + regions[2] <= cb.pre.inp_byte
             /\ cb.pre.inp_byte + SizeofFloat2
                   <= regions[1] + regions[2] + regions[3]
             /\ cb.post.written =>
                   /\ payload[1] <= cb.post.byte
                   /\ cb.post.byte + SizeofFloat <= payload[1] + payload[2]

----------------------------------------------------------------------------
(* executeFullPipeline and repeated initialization *)

\* C36: inside executeFullPipeline a step is invoked only after initialize
\* and the steps before it have returned true, so that nothing runs after a
\* failure; in a later call a step that had completed is not run again (it
\* enqueues nothing and does not reach the backend), and a step that had not
\* completed is executed on the backend.
C36_FullPipelineResumes ==
    [][ /\ (ExecuteStep1 \/ ExecuteStep2 \/ ExecuteStep3) =>
              /\ call.result = "true"
              /\ step1_completed_ \/ call'.op = "executeStep1"
              /\ step2_completed_ \/ call'.op \in { "executeStep1", "executeStep2" }
        /\ \A k \in 1..3 :
              (call'.op = StepNames[k]
                  /\ (ExecuteStep1 \/ ExecuteStep2 \/ ExecuteStep3)) =>
                 IF flags[k]
                 THEN /\ call'.result = "true" /\ ~call'.backend
                      /\ UNCHANGED << ops, flags, snapshot, timings >>
                 ELSE call'.backend /\ call'.result # "throw"
      ]_vars

\* the second executeFullPipeline has completed step 2, which had failed in
\* the first, without uploading the reference again
C36_Witness ==
    /\ step2_completed_ /\ faults = 1
    /\ Cardinality({ i \in 1..Len(ops) : ops[i].kind = "s1_upload" }) = 1
    /\ Cardinality({ i \in 1..Len(ops) : ops[i].kind = "s2_upload" }) = 2

\* C37: on an initialized backend initialize returns true and creates no
\* context, queue, buffer or plan, and setConfiguration throws and assigns
\* nothing, so that the configuration of the backend stays the one its
\* buffers were allocated with for as long as it is initialized.
C37_InitializeIsIdempotent ==
    [][ /\ (Initialize /\ initialized_) =>
              /\ call'.result = "true"
              /\ UNCHANGED << obj, ctx, context_, queue_, fft_handler_,
                              initialized_, backend_cfg >>
        /\ (SetConfiguration /\ initialized_) =>
              /\ call'.result = "throw"
              /\ UNCHANGED << backend_cfg, obj, ctx >>
        /\ (initialized_ /\ initialized_') => backend_cfg' = backend_cfg
      ]_vars

\* setConfiguration has been rejected on an initialized backend
C37_Witness ==
    /\ call.op = "setConfiguration" /\ call.result = "throw"
    /\ initialized_ /\ obj["reference_data"] = "alive"

----------------------------------------------------------------------------
(* Termination of the steps *)

\* the host is inside a step, at one of its waits
InsideStep == pc \in { "s1_upload", "s1_fft", "s1_read",
                       "s2_upload", "s2_fft", "s2_read",
                       "s3_copy", "s3_ifft", "s3_download", "s3_read" }

\* C38: when the device completes every command it is given, a step that
\* was invoked returns; and the host leaves a wait of a step only when the
\* command it waits for has ended, after no lapse of time otherwise.
C38_StepsReturnOnlyOnCompletion ==
    /\ InsideStep ~> (pc = "idle")
    /\ [][ (InsideStep /\ pc' # pc) => Finished(frame.evt) ]_vars

\* the host is blocked in step 3 on the inverse transform, which is running
C38_Witness ==
    /\ pc = "s3_ifft"
    /\ ops[frame.evt].kind = "s3_ifft" /\ ops[frame.evt].st = "running"

----------------------------------------------------------------------------
(* Conversion on the GPU and on the CPU *)

\* C39: for every N >= 1 and num_shifts >= 1 the kernel and the CPU routine
\* both write element shift * N + i of the output, and both write there
\* scale * input[(i + shift) mod N]; different (shift, i) are different
\* elements, so that each element is written once.
C39_KernelMatchesCpu ==
    cb.kind = "convert" =>
        /\ cb.cpu.written /\ cb.gpu.written
        /\ cb.cpu.idx = cb.gpu.idx
        /\ cb.cpu.val = cb.input[(cb.i + cb.shift) % cb.N] * cb.scale
        /\ cb.gpu.val = cb.cpu.val
        /\ cb.gpu.src = cb.cpu.src
        /\ \A sh \in 0..ElementMax, j \in 0..ElementMax :
              (j < cb.N /\ << sh, j >> # << cb.shift, cb.i >>) =>
                  CpuConvertElement(cb.input, cb.N, sh, j, cb.scale).idx
                      # cb.cpu.idx

====
